---- MODULE Spec2Model ----
(***************************************************************************)
(* Model of the orchestration core of seek-clarity:                        *)
(*   - LiveKitService (the session supervisor) with its supervised Python  *)
(*     agent process, as written in                                        *)
(*     src/reading_environmnet/IMPLEMENTATION_GUIDE.md lines 227-476 (the  *)
(*     copy in src/main/services/livekit.js lines 1-141 is the same class  *)
(*     without the agent process: its behaviours are those of this model   *)
(*     in which the agent entry file is always missing);                   *)
(*   - ScreenshotWebSocketServer (the automation bridge), unnamed/part_003:*)
(*     its message handlers (BridgeSpec) and its life cycle, heartbeat and *)
(*     shutdown (LifecycleSpec);                                           *)
(*   - AppleScriptService.executeScript (the script executor),             *)
(*     src/main/services/livekit.js lines 178-234 (ScriptSpec).            *)
(*                                                                         *)
(* JavaScript runs one task at a time.  An async function runs             *)
(* synchronously up to its first await; the continuation of an await on an *)
(* already settled promise is a microtask; microtasks run first-in         *)
(* first-out and all of them run before the next task (a timer, a child    *)
(* process event, the completion of real asynchronous work, a new IPC      *)
(* call).  The variables mq and draining model exactly that.               *)
(***************************************************************************)
EXTENDS Integers, Sequences, FiniteSets, TLC

\* Bounds of the model: how many start() and stop() calls are issued.
MaxStarts == 2
MaxStops == 1

Null == 0
StartIds == 1..MaxStarts
StopIds == 1..MaxStops
\* A start() call allocates at most one room id and spawns at most one
\* process: call c allocates room c (uuid freshness) and spawns process c.
Pids == StartIds
Rooms == StartIds

\* Error texts of the source.
ErrAlreadyConnected == "Already connected to a session"
ErrNoUrl == "LiveKit URL not configured"
ErrNoCredentials == "LiveKit API credentials not configured"
ErrSigning == "token signing failed"

VARIABLES
    config,         \* this.config: which of url, apiKey, apiSecret are set
    errorListener,  \* an 'error' listener is registered on the service
    currentRoom,    \* this.currentRoom (Null or a room id)
    isConnected,    \* this.isConnected
    agentProcess,   \* this.agentProcess (Null or the pid of the handle)
    proc,           \* the child processes spawned so far
    killTimers,     \* pending setTimeout callbacks of stopPythonAgent,
                    \* named by the process their stop() was stopping
    starts,         \* the startSession() calls: position and result
    stops,          \* the stopSession() calls: position
    mq,             \* the microtask queue
    draining,       \* the current task's synchronous code has ended
    events,         \* events delivered by emit(), in order
    nStarts,        \* number of startSession() calls issued
    nStops,         \* number of stopSession() calls issued
    graceElapsed,   \* history: processes alive when their kill timer fired
    successSinceIdle \* history: start() successes since the last
                    \* transition to Idle by stop()

\* The automation bridge (ScreenshotWebSocketServer, unnamed/part_003).
VARIABLES
    captureService,     \* this.captureService is set
    applescriptService, \* this.applescriptService is set
    scriptsInitialized, \* AppleScriptService.isInitialized
    isRunning,          \* this.isRunning
    wss,                \* this.wss is a listener
    heartbeats,         \* number of live setInterval heartbeat timers
    clients,            \* this.clients, the registry
    sock,               \* the sockets: readyState and isAlive
    jobs,               \* the message handler invocations
    nJobs,              \* number of messages handled so far
    lastSent            \* the message most recently sent on a socket

\* The life cycle of the bridge: heartbeat and shutdown.
VARIABLES
    nTicks,             \* number of heartbeat ticks so far
    nBridgeStops,       \* number of stop() calls that found it running
    closing,            \* listeners closed by stop() whose close callback
                        \* has not run yet
    stoppedEmitted      \* number of 'stopped' events emitted

\* The script executor (AppleScriptService.executeScript, livekit.js).
VARIABLES
    now,                \* Date.now(), in milliseconds
    files,              \* the temp files on disk: whose script each holds
    execs,              \* the executeScript() calls
    nExecs              \* number of executeScript() calls so far

\* The desktop capture service (DesktopCaptureService, capture.js).
VARIABLES
    screens,            \* the screen sources desktopCapturer can offer
    windows,            \* the window sources desktopCapturer can offer
    captures,           \* the captureScreen() calls
    nCaptures           \* number of captureScreen() calls so far

\* The legacy {type, payload} messages of the bridge.
VARIABLES
    ipcSources,         \* ipcMain has a handler for 'get-capture-sources'
    legacy,             \* the handler invocations for legacy messages
    nLegacy             \* number of legacy messages handled so far

\* The script builders of AppleScriptService (livekit.js 239-428).
VARIABLES
    build               \* the current executeScriptFile, createCalendarEvent
                        \* or createNote call

\* The bridge client (ScreenshotAutomation, src/automation/screenshot.js).
VARIABLES
    auto,               \* the fields of the ScreenshotAutomation object
    conns,              \* the WebSocket objects it created: their state
    promises,           \* the promises returned by sendRequest()
    hist                \* history: reconnect timers armed, disconnect()
                        \* called since the last connect() of the caller

cvars == <<captureService, applescriptService, scriptsInitialized, isRunning,
           wss, heartbeats, clients, sock, jobs, nJobs, lastSent>>
lvars == <<nTicks, nBridgeStops, closing, stoppedEmitted>>
xvars == <<now, files, execs, nExecs>>
pvars == <<screens, windows, captures, nCaptures>>
gvars == <<ipcSources, legacy, nLegacy>>
uvars == <<build>>
avars == <<auto, conns, promises, hist>>
dvars == <<pvars, gvars, uvars, avars>>
bvars == <<cvars, lvars, xvars, dvars>>

svars == <<config, errorListener, currentRoom, isConnected, agentProcess,
           proc, killTimers, starts, stops, mq, draining, events, nStarts,
           nStops, graceElapsed, successSinceIdle>>

NoProc == [st |-> "none", killed |-> FALSE, room |-> Null,
           sigterm |-> FALSE, sigkill |-> FALSE]
NoResult == [outcome |-> "pending", success |-> FALSE, error |-> "",
             roomName |-> Null, token |-> Null, url |-> FALSE]
NewStart == [pc |-> "new", tokRoom |-> Null, err |-> "", res |-> NoResult,
             connectedAtCall |-> FALSE, spawnFailed |-> FALSE,
             spawned |-> FALSE, hadHandle |-> FALSE]
NewStop == [pc |-> "new", startsBefore |-> 0, connectedAtCall |-> FALSE,
            handleAtCall |-> Null]

\* constructor(): IMPLEMENTATION_GUIDE.md 235-245; the configuration comes
\* from the environment, so any part of it may be missing.
SessionInit ==
    /\ config \in [url : BOOLEAN, apiKey : BOOLEAN, apiSecret : BOOLEAN]
    /\ errorListener = FALSE
    /\ currentRoom = Null
    /\ isConnected = FALSE
    /\ agentProcess = Null
    /\ proc = [p \in Pids |-> NoProc]
    /\ killTimers = {}
    /\ starts = [c \in StartIds |-> NewStart]
    /\ stops = [s \in StopIds |-> NewStop]
    /\ mq = <<>>
    /\ draining = FALSE
    /\ events = <<>>
    /\ nStarts = 0
    /\ nStops = 0
    /\ graceElapsed = {}
    /\ successSinceIdle = 0

\* ChildProcess.kill(signal): the signal is delivered only to a process
\* that has not exited; delivery sets the handle's .killed flag.
Kill(pr, p, sig) ==
    IF pr[p].st = "running"
    THEN [pr EXCEPT ![p].killed = TRUE,
                    ![p].sigterm = (pr[p].sigterm \/ sig = "SIGTERM"),
                    ![p].sigkill = (pr[p].sigkill \/ sig = "SIGKILL")]
    ELSE pr

\* The result objects startSession returns.
Failure(msg) == [NoResult EXCEPT !.outcome = "returned", !.error = msg]
Success(room, tok) == [outcome |-> "returned", success |-> TRUE, error |-> "",
                       roomName |-> room, token |-> tok, url |-> config.url]
\* emit('error') with no listener registered throws the error: thrown
\* inside the catch block, it rejects the promise startSession returned.
Rejected(msg) == [NoResult EXCEPT !.outcome = "rejected", !.error = msg]

\* catch (error) of startSession: emit('error', error), then return
\* {success:false, error: error.message}.
CatchResult(msg) == IF errorListener THEN Failure(msg) ELSE Rejected(msg)
CatchEvents(msg) ==
    IF errorListener THEN Append(events, [type |-> "error", room |-> Null])
    ELSE events

\* getRoomInfo()
GetRoomInfo == [isConnected |-> isConnected, roomName |-> currentRoom,
                url |-> config.url]

\* AlreadyConnected with the guard lost: every call proceeds.
AlreadyConnectedNoGuard == FALSE
\* The guard of startSession (IMPLEMENTATION_GUIDE.md 301; livekit.js 71).
AlreadyConnected == isConnected

\* Put a continuation at the back of the microtask queue.
Enqueue(q, item) == Append(q, item)

\* startPythonAgent(roomName), IMPLEMENTATION_GUIDE.md 346-427.  It has no
\* await, so it runs inside the step that calls it.  Outcomes: "reuse" (a
\* handle exists), "nofile" (agent file missing, returns false), "throws"
\* (spawn throws, caught, returns false), "spawn".
AgentOutcome(fileExists, spawnThrows) ==
    IF agentProcess # Null THEN "reuse"
    ELSE IF ~fileExists THEN "nofile"
    ELSE IF spawnThrows THEN "throws"
    ELSE "spawn"

\* startSession(), synchronous part: IMPLEMENTATION_GUIDE.md 299-319
\* (livekit.js 69-88), up to `await this.startPythonAgent(...)`.
StartSession(c, fileExists, spawnThrows) ==
    /\ UNCHANGED bvars
    /\ c = nStarts + 1
    /\ c \in StartIds
    /\ ~draining
    /\ nStarts' = c
    /\ IF AlreadyConnected
       THEN /\ starts' = [starts EXCEPT ![c].pc = "done",
                              ![c].connectedAtCall = TRUE,
                              ![c].res = Failure(ErrAlreadyConnected)]
            /\ UNCHANGED <<currentRoom, agentProcess, proc, mq, events>>
       ELSE /\ currentRoom' = c
            /\ IF ~config.url
               THEN /\ starts' = [starts EXCEPT ![c].pc = "done",
                                      ![c].err = ErrNoUrl,
                                      ![c].res = CatchResult(ErrNoUrl)]
                    /\ events' = CatchEvents(ErrNoUrl)
                    /\ UNCHANGED <<agentProcess, proc, mq>>
               ELSE LET o == AgentOutcome(fileExists, spawnThrows) IN
                    /\ starts' = [starts EXCEPT ![c].pc = "afterAgent",
                                      ![c].hadHandle = (o = "reuse"),
                                      ![c].spawned = (o = "spawn"),
                                      ![c].spawnFailed = (o \in {"nofile", "throws"})]
                    /\ IF o = "spawn"
                       THEN /\ agentProcess' = c
                            /\ proc' = [proc EXCEPT ![c] =
                                          [NoProc EXCEPT !.st = "running", !.room = c]]
                       ELSE UNCHANGED <<agentProcess, proc>>
                    /\ mq' = Enqueue(mq, <<"start", c>>)
                    /\ UNCHANGED events
    /\ UNCHANGED <<config, errorListener, isConnected, killTimers, stops,
                   draining, nStops, graceElapsed, successSinceIdle>>

\* The microtask at the head of the queue runs; when the queue is empty
\* afterwards the task is over.
Dequeued(q) == Tail(q)

\* Continuation after `await this.startPythonAgent(...)`: the call of
\* generateToken(this.currentRoom, ...), IMPLEMENTATION_GUIDE.md 321 and
\* 266-290 (livekit.js 88 and 36-60).  Missing credentials throw; else the
\* token is built for the room read now and toJwt() starts signing.
StartAfterAgent(c) ==
    /\ UNCHANGED bvars
    /\ mq # <<>> /\ Head(mq) = <<"start", c>>
    /\ starts[c].pc = "afterAgent"
    /\ IF ~config.apiKey \/ ~config.apiSecret
       THEN /\ starts' = [starts EXCEPT ![c].pc = "tokenRejected",
                              ![c].err = ErrNoCredentials]
            /\ mq' = Enqueue(Dequeued(mq), <<"start", c>>)
       ELSE /\ starts' = [starts EXCEPT ![c].pc = "awaitJwt",
                              ![c].tokRoom = currentRoom]
            /\ mq' = Dequeued(mq)
    /\ draining' = (mq' # <<>>)
    /\ UNCHANGED <<config, errorListener, currentRoom, isConnected,
                   agentProcess, proc, killTimers, stops, events, nStarts,
                   nStops, graceElapsed, successSinceIdle>>

\* token.toJwt() settles (real asynchronous signing): a task of its own,
\* which queues the continuation of generateToken.
JwtSettle(c, ok) ==
    /\ UNCHANGED bvars
    /\ mq = <<>>
    /\ starts[c].pc = "awaitJwt"
    /\ starts' = [starts EXCEPT ![c].pc = IF ok THEN "jwtDone" ELSE "jwtFailed"]
    /\ mq' = <<<<"start", c>>>>
    /\ draining' = TRUE
    /\ UNCHANGED <<config, errorListener, currentRoom, isConnected,
                   agentProcess, proc, killTimers, stops, events, nStarts,
                   nStops, graceElapsed, successSinceIdle>>

\* generateToken after `await token.toJwt()`: returns the jwt, or logs and
\* rethrows (IMPLEMENTATION_GUIDE.md 290-296); startSession's own await
\* continues one microtask later.
GenerateTokenReturn(c) ==
    /\ UNCHANGED bvars
    /\ mq # <<>> /\ Head(mq) = <<"start", c>>
    /\ starts[c].pc \in {"jwtDone", "jwtFailed"}
    /\ starts' = [starts EXCEPT
                    ![c].pc = IF starts[c].pc = "jwtDone" THEN "tokenOk"
                              ELSE "tokenRejected",
                    ![c].err = IF starts[c].pc = "jwtDone" THEN "" ELSE ErrSigning]
    /\ mq' = Enqueue(Dequeued(mq), <<"start", c>>)
    /\ draining' = TRUE
    /\ UNCHANGED <<config, errorListener, currentRoom, isConnected,
                   agentProcess, proc, killTimers, stops, events, nStarts,
                   nStops, graceElapsed, successSinceIdle>>

\* startSession after `await this.generateToken(...)` succeeded:
\* IMPLEMENTATION_GUIDE.md 326-334 (livekit.js 93-101).
StartSucceed(c) ==
    /\ UNCHANGED bvars
    /\ mq # <<>> /\ Head(mq) = <<"start", c>>
    /\ starts[c].pc = "tokenOk"
    /\ isConnected' = TRUE
    /\ events' = Append(events, [type |-> "connected", room |-> currentRoom])
    /\ starts' = [starts EXCEPT ![c].pc = "done",
                      ![c].res = Success(currentRoom, starts[c].tokRoom)]
    /\ successSinceIdle' = successSinceIdle + 1
    /\ mq' = Dequeued(mq)
    /\ draining' = (mq' # <<>>)
    /\ UNCHANGED <<config, errorListener, currentRoom, agentProcess, proc,
                   killTimers, stops, nStarts, nStops, graceElapsed>>

\* startSession's catch block after generateToken threw:
\* IMPLEMENTATION_GUIDE.md 335-343 (livekit.js 102-110).
StartFail(c) ==
    /\ UNCHANGED bvars
    /\ mq # <<>> /\ Head(mq) = <<"start", c>>
    /\ starts[c].pc = "tokenRejected"
    /\ events' = CatchEvents(starts[c].err)
    /\ starts' = [starts EXCEPT ![c].pc = "done",
                      ![c].res = CatchResult(starts[c].err)]
    /\ mq' = Dequeued(mq)
    /\ draining' = (mq' # <<>>)
    /\ UNCHANGED <<config, errorListener, currentRoom, isConnected,
                   agentProcess, proc, killTimers, stops, nStarts, nStops,
                   graceElapsed, successSinceIdle>>

\* stopPythonAgent(), IMPLEMENTATION_GUIDE.md 429-443: SIGTERM to the
\* handle, arm the 2 s timer, clear the handle at once.  No await inside.
StopAgentProc == IF agentProcess # Null THEN Kill(proc, agentProcess, "SIGTERM")
                 ELSE proc
StopAgentTimers == IF agentProcess # Null THEN killTimers \cup {agentProcess}
                   ELSE killTimers

\* stopSession(), synchronous part: IMPLEMENTATION_GUIDE.md 445-455
\* (livekit.js 113-120), up to `await this.stopPythonAgent()`.
StopSession(s) ==
    /\ UNCHANGED bvars
    /\ s = nStops + 1
    /\ s \in StopIds
    /\ ~draining
    /\ nStops' = s
    /\ IF ~isConnected
       THEN /\ stops' = [stops EXCEPT ![s].pc = "done",
                              ![s].startsBefore = nStarts]
            /\ UNCHANGED <<agentProcess, proc, killTimers, mq>>
       ELSE /\ stops' = [stops EXCEPT ![s].pc = "afterStopAgent",
                              ![s].startsBefore = nStarts,
                              ![s].connectedAtCall = TRUE,
                              ![s].handleAtCall = agentProcess]
            /\ proc' = StopAgentProc
            /\ killTimers' = StopAgentTimers
            /\ agentProcess' = Null
            /\ mq' = Enqueue(mq, <<"stop", s>>)
    /\ UNCHANGED <<config, errorListener, currentRoom, isConnected, starts,
                   draining, events, nStarts, graceElapsed, successSinceIdle>>

\* stopSession after `await this.stopPythonAgent()`:
\* IMPLEMENTATION_GUIDE.md 457-461 (livekit.js 122-126).
StopFinish(s) ==
    /\ UNCHANGED bvars
    /\ mq # <<>> /\ Head(mq) = <<"stop", s>>
    /\ stops[s].pc = "afterStopAgent"
    /\ isConnected' = FALSE
    /\ currentRoom' = Null
    /\ events' = Append(events, [type |-> "disconnected", room |-> Null])
    /\ stops' = [stops EXCEPT ![s].pc = "done"]
    /\ successSinceIdle' = 0
    /\ mq' = Dequeued(mq)
    /\ draining' = (mq' # <<>>)
    /\ UNCHANGED <<config, errorListener, agentProcess, proc, killTimers,
                   starts, nStarts, nStops, graceElapsed>>

\* The setTimeout callback of stopPythonAgent, IMPLEMENTATION_GUIDE.md
\* 435-439, 2000 ms after the stop() that was stopping process p.  It reads
\* this.agentProcess when it fires.
TimerTarget == IF agentProcess # Null /\ ~proc[agentProcess].killed
               THEN agentProcess ELSE Null
KillTimerFire(p) ==
    /\ UNCHANGED bvars
    /\ mq = <<>>
    /\ p \in killTimers
    /\ killTimers' = killTimers \ {p}
    /\ graceElapsed' = IF proc[p].st = "running" THEN graceElapsed \cup {p}
                       ELSE graceElapsed
    /\ proc' = IF TimerTarget # Null THEN Kill(proc, TimerTarget, "SIGKILL")
               ELSE proc
    /\ UNCHANGED <<config, errorListener, currentRoom, isConnected,
                   agentProcess, starts, stops, mq, draining, events, nStarts,
                   nStops, successSinceIdle>>

\* A child process exits (by itself, or after a signal) and its 'exit'
\* handler runs: IMPLEMENTATION_GUIDE.md 416-419.
ExitHandlerHandle(p) == Null
AgentExit(p) ==
    /\ UNCHANGED bvars
    /\ mq = <<>>
    /\ proc[p].st = "running"
    /\ proc' = [proc EXCEPT ![p].st = "exited"]
    /\ agentProcess' = ExitHandlerHandle(p)
    /\ UNCHANGED <<config, errorListener, currentRoom, isConnected,
                   killTimers, starts, stops, mq, draining, events, nStarts,
                   nStops, graceElapsed, successSinceIdle>>

\* IPCManager.registerVoiceHandlers registers the 'error' listener:
\* src/renderer/modules/visualizer.js 461-463.
RegisterVoiceHandlers ==
    /\ UNCHANGED bvars
    /\ mq = <<>>
    /\ ~errorListener
    /\ errorListener' = TRUE
    /\ UNCHANGED <<config, currentRoom, isConnected, agentProcess, proc,
                   killTimers, starts, stops, mq, draining, events, nStarts,
                   nStops, graceElapsed, successSinceIdle>>

(***************************************************************************)
(* The automation bridge: ScreenshotWebSocketServer, unnamed/part_003      *)
(* lines 1-552.                                                            *)
(***************************************************************************)
\* Bounds: sockets that may connect, messages that may arrive, heartbeat
\* ticks, stop() calls on a running bridge.
MaxClients == 2
MaxJobs == 2
MaxTicks == 2
MaxBridgeStops == 1
\* Bounds of the script executor: executeScript() calls, clock values.
MaxExecs == 2
MaxClock == 2

Sockets == 1..MaxClients
JobIds == 1..MaxJobs
\* requestId values: Absent is a message without one; a client that sends
\* one uses a fresh value for each request (RequestId(j) for its j-th).
Absent == 0
RequestId(j) == j
ReqIds == {RequestId(j) : j \in JobIds}
\* The values of message.action a client may send: the five verbs of
\* handleMessage's switch and one it does not know.
Verbs == {"capture_screenshot", "applescript_execute",
          "create_calendar_event", "create_note", "ping"}
Actions == Verbs \cup {"foo_bar"}
\* The verbs served by the AppleScript service.  Each has a parameter the
\* interface requires: params.code_snippet for applescript_execute,
\* params.title for create_calendar_event and create_note.
ScriptVerbs == {"applescript_execute", "create_calendar_event", "create_note"}

\* The payloads of a message that is not a JSON object: text that is not
\* JSON, the JSON value null, another JSON value that is not an object (a
\* number, a string, a boolean, an array).
Payloads == {"text", "null", "scalar"}

\* A socket: readyState and isAlive are the fields of the ws object; the
\* others are its history: malformed counts the messages that are not a
\* JSON object that arrived on it, ticks the heartbeat ticks that found it
\* open, ponged tells that it answered a ping, unanswered that the last ping
\* sent to it has no answer yet, notified that stop() sent it the closing
\* notice.
NoSock == [readyState |-> "NONE", isAlive |-> FALSE, malformed |-> 0,
           ticks |-> 0, ponged |-> FALSE, unanswered |-> FALSE,
           notified |-> FALSE]
NoJob == [ws |-> Null, action |-> "", requestId |-> Absent,
          hasParam |-> TRUE, pc |-> "unused"]
NoMessage == [ws |-> Null, job |-> Null, action |-> "", asked |-> Absent,
              hasParam |-> TRUE, type |-> "", success |-> FALSE,
              error |-> "", requestId |-> Absent]

ExecIds == 1..MaxExecs
Times == 1..MaxClock
\* The path of the temp file of a call made at time t (livekit.js 191):
\* `temp_script_${Date.now()}.applescript` in the directory of the module.
TempFile(t) == <<"temp_script", t, "applescript">>
Paths == {TempFile(t) : t \in Times}
NoPath == <<>>
\* An executeScript() call: its position, its temp file, whose script the
\* interpreter read (Null: it found no file), the interpreter's exit
\* (zero or not), whether the failure of unlink was logged, its result.
NoExec == [pc |-> "new", tempFile |-> NoPath, ran |-> Null, exitZero |-> FALSE,
          warned |-> FALSE, result |-> "pending"]
\* The executor before any call: the clock runs, no temp file exists.
ExecRest ==
    /\ now = 1
    /\ files = [p \in Paths |-> Null]
    /\ execs = [e \in ExecIds |-> NoExec]
    /\ nExecs = 0

\* captureScreen() calls.
MaxCaptures == 1
CaptureIds == 1..MaxCaptures

\* The preset table of captureScreen (capture.js 112-116), <<width, height>>.
Resolutions == [low |-> <<1280, 720>>, medium |-> <<1920, 1080>>,
                high |-> <<2560, 1440>>]
Tiers == DOMAIN Resolutions
\* The values of options.quality a caller may send: the three tiers, one
\* that is not in the table, and "" for a request without the property.
Qualities == Tiers \cup {"ultra", ""}
\* options.type: the three documented values, "" for none given.
CaptureTypes == {"screen", "window", "selection", ""}
\* options.sourceId: "" stands for null or none given (both are falsy).
SourceIds == {"", "window:1", "window:9"}
\* What desktopCapturer can offer, in the order it lists them.
ScreenLists == {<<>>, <<"screen:0">>, <<"screen:1", "screen:0">>}
WindowLists == {<<>>, <<"window:1">>, <<"window:2", "window:1">>}
\* The callers of captureScreen: the capture_screenshot verb of the bridge
\* (handleScreenshotRequest) and its legacy 'capture' message
\* (handleCaptureRequest).
Callers == {"capture_screenshot", "capture"}
NoSourcesError == "No capture sources available"

NoOptions == [type |-> "", sourceId |-> "", quality |-> ""]
NoAsk == [types |-> "", thumbnailSize |-> <<0, 0>>]
\* A captureScreen() call: its position, its caller, the quality tier the
\* request named, the options captureScreen works with, what it asked of
\* desktopCapturer.getSources, its outcome ("returned" or "threw"), the id
\* of the source it returned, the message it threw, and the screen sources
\* that were available when it settled.
NoCapture == [pc |-> "new", via |-> "", chosen |-> "", options |-> NoOptions,
              asked |-> NoAsk, outcome |-> "pending", source |-> "",
              error |-> "", avail |-> <<>>]

\* The service before any call, one screen attached and no window open.
CaptureRest ==
    /\ screens = <<"screen:0">>
    /\ windows = <<>>
    /\ captures = [k \in CaptureIds |-> NoCapture]
    /\ nCaptures = 0

\* Legacy messages handled.
MaxLegacy == 2
LegacyIds == 1..MaxLegacy
\* The values of message.type a client may send: the five of the type
\* switch of handleMessage (part_003 124-147) and one it does not know.
LegacyTypes == {"capture", "analyze", "sources", "save", "ping"}
MessageTypes == LegacyTypes \cup {"bogus"}
\* The types whose handler reads payload.dataUrl.
DataTypes == {"analyze", "save"}
\* A legacy handler invocation: its socket, the type of its message, its
\* position, and the type of the response that ended it ("" as long as it
\* has sent none; the status message of an analysis does not end it).
NoLegacy == [ws |-> Null, type |-> "", pc |-> "unused", answer |-> ""]
\* The DesktopCaptureService constructor registers the channel
\* 'get-capture-sources' (capture.js 9, 28): the channel has a handler
\* exactly when the service was built.
LegacyRest ==
    /\ ipcSources = captureService
    /\ legacy = [j \in LegacyIds |-> NoLegacy]
    /\ nLegacy = 0

\* Text is a sequence of characters.  The three that matter to an
\* AppleScript string literal: the double quote, the backslash, the newline.
DQ == "\""
BS == "\\"
NL == "\n"
\* 60 * 60 * 1000 (livekit.js 287): one hour, in milliseconds.
HourMs == 60 * 60 * 1000
\* No Date: endDate = null, or an option that was not given.
NoDate == -1
\* A builder call: its position, which builder, the free-text values it
\* was given and the texts it embedded for them, the template and the
\* parameters of executeScriptFile, the source handed to executeScript
\* (executed: executeScript was called), the start and end dates of an
\* event (endGiven: options.endDate), the result, and for an event made
\* for a request of the bridge the start_time and duration of the request.
NoBuild == [pc |-> "idle", kind |-> "", texts |-> <<>>, literals |-> <<>>,
            template |-> <<>>, parameters |-> <<>>, handed |-> <<>>,
            executed |-> FALSE, start |-> NoDate, endGiven |-> NoDate,
            end |-> NoDate, result |-> "pending", request |-> <<>>]
BuildRest == build = NoBuild

\* Bounds: WebSocket objects the client may create, requests it may send.
MaxConns == 3
MaxRequests == 2
ConnIds == 1..MaxConns
RequestIds == 1..MaxRequests
\* The request types of captureScreenshot, analyzeScreenshot, getSources
\* and saveScreenshot (screenshot.js 147, 163, 198, 211).
RequestTypes == {"capture", "analyze", "sources", "save"}
\* constructor(), screenshot.js 10-18; reconnectTimer is undefined.
NoAuto == [ws |-> Null, isConnected |-> FALSE, pendingRequests |-> {},
           requestId |-> 0, reconnectTimer |-> FALSE]
\* A promise of sendRequest: the connection its request was sent on, its
\* state, what settled it, whether its 30 s timer is armed, whether the
\* bridge's response to it has arrived and whether that had an error.
NoPromise == [type |-> "", conn |-> Null, state |-> "unused", by |-> "",
              timer |-> FALSE, answered |-> FALSE, failed |-> FALSE]
NoHist == [armed |-> 0, disconnected |-> FALSE]
AutoRest ==
    /\ auto = NoAuto
    /\ conns = [k \in ConnIds |-> "unused"]
    /\ promises = [r \in RequestIds |-> NoPromise]
    /\ hist = NoHist

\* constructor(captureService, applescriptService = null): part_003 6-16.
BridgeInit ==
    /\ captureService \in BOOLEAN
    /\ applescriptService \in BOOLEAN
    /\ scriptsInitialized \in BOOLEAN
    /\ isRunning = FALSE
    /\ wss = FALSE
    /\ heartbeats = 0
    /\ clients = {}
    /\ sock = [w \in Sockets |-> NoSock]
    /\ jobs = [j \in JobIds |-> NoJob]
    /\ nJobs = 0
    /\ lastSent = NoMessage
    /\ nTicks = 0
    /\ nBridgeStops = 0
    /\ closing = 0
    /\ stoppedEmitted = 0
    /\ ExecRest
    /\ CaptureRest
    /\ LegacyRest
    /\ BuildRest
    /\ AutoRest

\* JSON.stringify drops a property whose value is undefined: a response
\* built with `requestId: request.requestId` has the property only when the
\* request had it.  A response is the record of its properties (Absent: the
\* property is not there), together with the socket it is sent on and the
\* request it answers (job, action, asked: the request's requestId,
\* hasParam: the request had the required parameter of its verb).
Response(j, req, success, error, requestId) ==
    [ws |-> req.ws, job |-> j, action |-> req.action, asked |-> req.requestId,
     hasParam |-> req.hasParam, type |-> "", success |-> success,
     error |-> error, requestId |-> requestId]

\* The message of sendError(ws, error), part_003 345-351: {type: 'error',
\* error, timestamp}, the answer to message j of socket w.  It has no
\* success and no requestId property (success reads FALSE here).
ErrorMessage(w, j, error) ==
    [ws |-> w, job |-> j, action |-> "", asked |-> Absent,
     hasParam |-> TRUE, type |-> "error", success |-> FALSE,
     error |-> error, requestId |-> Absent]

\* SendMessage without the test of readyState.
SendMessageUnchecked(message) == message
\* sendMessage(ws, message), part_003 338-342: sent only on an open socket.
SendMessage(message) ==
    IF sock[message.ws].readyState = "OPEN" THEN message ELSE lastSent

\* The requestId property of the responses of handleScreenshotRequest
\* (part_003 182 and 198): that of the request.
ScreenshotRequestId(req) == req.requestId
\* The responses of the other verbs are built without a requestId property
\* (part_003 114, 118, 434-438, 447-450, 484-488, 497-500, 520-524, 530-533).
OtherRequestId(req) == Absent
\* The requestId property of the responses to request req.
ResponseRequestId(req) ==
    IF req.action = "capture_screenshot" THEN ScreenshotRequestId(req)
    ELSE OtherRequestId(req)

\* start(), part_003 23-89: the listener is created (or the constructor
\* throws), the heartbeat interval is armed.
BridgeStart(throws) ==
    /\ ~isRunning
    /\ IF throws
       THEN UNCHANGED <<isRunning, wss, heartbeats>>
       ELSE /\ isRunning' = TRUE
            /\ wss' = TRUE
            /\ heartbeats' = heartbeats + 1
    /\ UNCHANGED <<captureService, applescriptService, scriptsInitialized,
                   clients, sock, jobs, nJobs, lastSent>>
    /\ UNCHANGED lvars
    /\ UNCHANGED xvars
    /\ UNCHANGED dvars
    /\ UNCHANGED svars

\* start() when already running returns at once (part_003 24-27).
\* BridgeStartAgain for a start() without that test: it arms another
\* heartbeat interval.
BridgeStartAgainArms ==
    /\ isRunning
    /\ heartbeats < 2
    /\ heartbeats' = heartbeats + 1
    /\ UNCHANGED <<captureService, applescriptService, scriptsInitialized,
                   isRunning, wss, clients, sock, jobs, nJobs, lastSent>>
    /\ UNCHANGED lvars
    /\ UNCHANGED xvars
    /\ UNCHANGED dvars
    /\ UNCHANGED svars
BridgeStartAgain ==
    /\ isRunning
    /\ UNCHANGED bvars
    /\ UNCHANGED svars

\* wss.on('connection'), part_003 33-76.  Sockets are numbered in the order
\* in which they connect.
ClientConnect(w) ==
    /\ wss
    /\ sock[w].readyState = "NONE"
    /\ \A v \in Sockets : v < w => sock[v].readyState # "NONE"
    /\ clients' = clients \cup {w}
    /\ sock' = [sock EXCEPT ![w] = [NoSock EXCEPT !.readyState = "OPEN",
                                                  !.isAlive = TRUE]]
    /\ UNCHANGED <<captureService, applescriptService, scriptsInitialized,
                   isRunning, wss, heartbeats, jobs, nJobs, lastSent>>
    /\ UNCHANGED lvars
    /\ UNCHANGED xvars
    /\ UNCHANGED dvars
    /\ UNCHANGED svars

\* The socket closes (the client closed it, or the closing handshake that
\* the bridge began ends): ws.on('close'), part_003 60-63.
ClientClose(w) ==
    /\ sock[w].readyState \in {"OPEN", "CLOSING"}
    /\ sock' = [sock EXCEPT ![w].readyState = "CLOSED"]
    /\ clients' = clients \ {w}
    /\ UNCHANGED <<captureService, applescriptService, scriptsInitialized,
                   isRunning, wss, heartbeats, jobs, nJobs, lastSent>>
    /\ UNCHANGED lvars
    /\ UNCHANGED xvars
    /\ UNCHANGED dvars
    /\ UNCHANGED svars

\* ClientError for a bridge that keeps a failed socket in the registry.
ClientErrorKeeps(w) ==
    /\ sock[w].readyState = "OPEN"
    /\ sock' = [sock EXCEPT ![w].readyState = "CLOSING"]
    /\ UNCHANGED <<captureService, applescriptService, scriptsInitialized,
                   isRunning, wss, heartbeats, clients, jobs, nJobs, lastSent>>
    /\ UNCHANGED lvars
    /\ UNCHANGED xvars
    /\ UNCHANGED dvars
    /\ UNCHANGED svars
\* The socket fails (a frame that violates the protocol): ws.on('error'),
\* part_003 66-69.  The ws library begins to close a socket before it emits
\* 'error' on it, and emits 'close' afterwards.
ClientError(w) ==
    /\ sock[w].readyState = "OPEN"
    /\ sock' = [sock EXCEPT ![w].readyState = "CLOSING"]
    /\ clients' = clients \ {w}
    /\ UNCHANGED <<captureService, applescriptService, scriptsInitialized,
                   isRunning, wss, heartbeats, jobs, nJobs, lastSent>>
    /\ UNCHANGED lvars
    /\ UNCHANGED xvars
    /\ UNCHANGED dvars
    /\ UNCHANGED svars

\* What the handler of an action message does before its first real
\* suspension: the response it sends at once, or the work it waits for.
\*   handleMessage             part_003 91-121
\*   handleScreenshotRequest   part_003 150-166
\*   handleAppleScriptRequest  part_003 410-429
\*   handleCalendarRequest     part_003 454-479
\*   handleNoteRequest         part_003 504-517
\* AppleScriptService.executeScript throws when the service was not
\* initialized (livekit.js 178-181); the handler's catch answers.
Answer(success, error) == [pc |-> "done", send |-> TRUE, success |-> success,
                           error |-> error]
Await(what) == [pc |-> what, send |-> FALSE, success |-> FALSE, error |-> ""]
Dispatch(action, hasParam) ==
    CASE action = "capture_screenshot" ->
           IF ~captureService
           THEN Answer(FALSE, "Capture service not available")
           ELSE Await("capturing")
      [] action \in ScriptVerbs ->
           IF ~applescriptService
           THEN Answer(FALSE, "AppleScript service not available")
           ELSE IF action = "applescript_execute" /\ ~hasParam
           THEN Answer(FALSE, "No AppleScript code provided")
           ELSE IF ~scriptsInitialized
           THEN Answer(FALSE, "AppleScript service not initialized")
           ELSE Await("scripting")
      [] action = "ping" -> Answer(TRUE, "")
      [] OTHER -> Answer(FALSE, "Unknown action: foo_bar")

\* OnMessage for a bridge that handles the messages of a connection one
\* at a time: a message waits until the handlers in flight have ended.
OnMessageSerial(w, action, rid, hasParam) ==
    /\ sock[w].readyState = "OPEN"
    /\ \A k \in JobIds : jobs[k].pc # "unused" => jobs[k].ws # w
    /\ nJobs < MaxJobs
    /\ rid \in {Absent, RequestId(nJobs + 1)}
    /\ (action \notin ScriptVerbs => hasParam)
    /\ nJobs' = nJobs + 1
    /\ LET j == nJobs + 1
           req == [ws |-> w, action |-> action, requestId |-> rid,
                   hasParam |-> hasParam]
           d == Dispatch(action, hasParam)
       IN  /\ jobs' = IF d.send THEN jobs
                       ELSE [jobs EXCEPT ![j] = [ws |-> w, action |-> action,
                                                 requestId |-> rid,
                                                 hasParam |-> hasParam,
                                                 pc |-> d.pc]]
           /\ lastSent' = IF d.send
                          THEN SendMessage(Response(j, req, d.success, d.error,
                                                    ResponseRequestId(req)))
                          ELSE lastSent
    /\ UNCHANGED <<captureService, applescriptService, scriptsInitialized,
                   isRunning, wss, heartbeats, clients, sock>>
    /\ UNCHANGED lvars
    /\ UNCHANGED xvars
    /\ UNCHANGED dvars
    /\ UNCHANGED svars

\* ws.on('message') with a well-formed action message {action, params,
\* requestId?}: part_003 46-57 and handleMessage.  hasParam: the message
\* has the required parameter of its verb.
OnMessage(w, action, rid, hasParam) ==
    /\ sock[w].readyState = "OPEN"
    /\ nJobs < MaxJobs
    /\ rid \in {Absent, RequestId(nJobs + 1)}
    /\ (action \notin ScriptVerbs => hasParam)
    /\ nJobs' = nJobs + 1
    /\ LET j == nJobs + 1
           req == [ws |-> w, action |-> action, requestId |-> rid,
                   hasParam |-> hasParam]
           d == Dispatch(action, hasParam)
       IN  /\ jobs' = IF d.send THEN jobs
                       ELSE [jobs EXCEPT ![j] = [ws |-> w, action |-> action,
                                                 requestId |-> rid,
                                                 hasParam |-> hasParam,
                                                 pc |-> d.pc]]
           /\ lastSent' = IF d.send
                          THEN SendMessage(Response(j, req, d.success, d.error,
                                                    ResponseRequestId(req)))
                          ELSE lastSent
    /\ UNCHANGED <<captureService, applescriptService, scriptsInitialized,
                   isRunning, wss, heartbeats, clients, sock>>
    /\ UNCHANGED lvars
    /\ UNCHANGED xvars
    /\ UNCHANGED dvars
    /\ UNCHANGED svars

\* What the message handler answers to a payload that is not a JSON
\* object, part_003 46-57 and 91-147: JSON.parse throws on text that is not
\* JSON and the destructuring of handleMessage throws on null, the catch of
\* the message handler answers both; any other value has neither an action
\* nor a type property and reaches the default of the type switch.
MalformedError(payload) ==
    IF payload \in {"text", "null"} THEN "Invalid message format"
    ELSE "Unknown message type: undefined"

\* OnMalformed for a bridge that drops a connection on a protocol error.
OnMalformedClosing(w, payload) ==
    /\ sock[w].readyState = "OPEN"
    /\ nJobs < MaxJobs
    /\ nJobs' = nJobs + 1
    /\ lastSent' = SendMessage(ErrorMessage(w, nJobs + 1,
                                            MalformedError(payload)))
    /\ sock' = [sock EXCEPT ![w].malformed = @ + 1,
                            ![w].readyState = "CLOSED"]
    /\ clients' = clients \ {w}
    /\ UNCHANGED <<captureService, applescriptService, scriptsInitialized,
                   isRunning, wss, heartbeats, jobs>>
    /\ UNCHANGED lvars
    /\ UNCHANGED xvars
    /\ UNCHANGED dvars
    /\ UNCHANGED svars
\* ws.on('message') with a payload that is not a JSON object.
OnMalformed(w, payload) ==
    /\ sock[w].readyState = "OPEN"
    /\ nJobs < MaxJobs
    /\ nJobs' = nJobs + 1
    /\ lastSent' = SendMessage(ErrorMessage(w, nJobs + 1,
                                            MalformedError(payload)))
    /\ sock' = [sock EXCEPT ![w].malformed = @ + 1]
    /\ UNCHANGED <<captureService, applescriptService, scriptsInitialized,
                   isRunning, wss, heartbeats, clients, jobs>>
    /\ UNCHANGED lvars
    /\ UNCHANGED xvars
    /\ UNCHANGED dvars
    /\ UNCHANGED svars

\* CaptureDone for a handler whose catch does not answer.
CaptureDoneUncaught(j, ok) ==
    /\ jobs[j].pc = "capturing"
    /\ jobs' = [jobs EXCEPT ![j] = NoJob]
    /\ lastSent' = IF ok THEN SendMessage(Response(j, jobs[j], TRUE, "",
                                              ResponseRequestId(jobs[j])))
                   ELSE lastSent
    /\ UNCHANGED <<captureService, applescriptService, scriptsInitialized,
                   isRunning, wss, heartbeats, clients, sock, nJobs>>
    /\ UNCHANGED lvars
    /\ UNCHANGED xvars
    /\ UNCHANGED dvars
    /\ UNCHANGED svars

\* captureService.captureScreen settles and handleScreenshotRequest
\* continues: part_003 168-200.  It throws when there is no capture source
\* (capture.js 135-137); what it returns always has a dataUrl (capture.js
\* 141-156), so the check of part_003 171 never fails.
CaptureDone(j, ok) ==
    /\ jobs[j].pc = "capturing"
    /\ jobs' = [jobs EXCEPT ![j] = NoJob]
    /\ lastSent' = SendMessage(Response(j, jobs[j], ok,
                       IF ok THEN "" ELSE "No capture sources available",
                       ResponseRequestId(jobs[j])))
    /\ UNCHANGED <<captureService, applescriptService, scriptsInitialized,
                   isRunning, wss, heartbeats, clients, sock, nJobs>>
    /\ UNCHANGED lvars
    /\ UNCHANGED xvars
    /\ UNCHANGED dvars
    /\ UNCHANGED svars

\* executeScript / createCalendarEvent / createNote settles with a
\* {success, output, error} result and the handler answers: part_003
\* 429-441, 479-491, 513-524.
ScriptDone(j, ok) ==
    /\ jobs[j].pc = "scripting"
    /\ jobs' = [jobs EXCEPT ![j] = NoJob]
    /\ lastSent' = SendMessage(Response(j, jobs[j], ok,
                       IF ok THEN "" ELSE "osascript failed",
                       ResponseRequestId(jobs[j])))
    /\ UNCHANGED <<captureService, applescriptService, scriptsInitialized,
                   isRunning, wss, heartbeats, clients, sock, nJobs>>
    /\ UNCHANGED lvars
    /\ UNCHANGED xvars
    /\ UNCHANGED dvars
    /\ UNCHANGED svars

\* The callback of the heartbeat interval, part_003 355-366.  For every
\* registered socket: one that did not answer the previous ping is removed
\* from the registry and terminated; another is marked not alive and
\* pinged.
\* HeartbeatEvict for a heartbeat that never evicts.
HeartbeatEvictNever(w) == FALSE
HeartbeatEvict(w) == ~sock[w].isAlive
\* The socket w after the tick.
HeartbeatSock(w) ==
    LET counted == [sock[w] EXCEPT !.ticks = IF sock[w].readyState = "OPEN"
                                             THEN @ + 1 ELSE @]
    IN  IF w \notin clients THEN counted
        ELSE IF HeartbeatEvict(w)
        THEN [counted EXCEPT !.readyState = "CLOSED"]
        ELSE [counted EXCEPT !.isAlive = FALSE, !.unanswered = TRUE]
\* HeartbeatTick for a heartbeat that cancels the handlers of the clients
\* it evicts.
HeartbeatTickCancelling ==
    /\ heartbeats > 0
    /\ nTicks < MaxTicks
    /\ nTicks' = nTicks + 1
    /\ clients' = {w \in clients : ~HeartbeatEvict(w)}
    /\ sock' = [w \in Sockets |-> HeartbeatSock(w)]
    /\ jobs' = [j \in JobIds |->
                  IF jobs[j].ws \in clients /\ HeartbeatEvict(jobs[j].ws)
                  THEN NoJob ELSE jobs[j]]
    /\ UNCHANGED <<captureService, applescriptService, scriptsInitialized,
                   isRunning, wss, heartbeats, nJobs, lastSent,
                   nBridgeStops, closing, stoppedEmitted>>
    /\ UNCHANGED xvars
    /\ UNCHANGED dvars
    /\ UNCHANGED svars
HeartbeatTick ==
    /\ heartbeats > 0
    /\ nTicks < MaxTicks
    /\ nTicks' = nTicks + 1
    /\ clients' = {w \in clients : ~HeartbeatEvict(w)}
    /\ sock' = [w \in Sockets |-> HeartbeatSock(w)]
    /\ UNCHANGED <<captureService, applescriptService, scriptsInitialized,
                   isRunning, wss, heartbeats, jobs, nJobs, lastSent,
                   nBridgeStops, closing, stoppedEmitted>>
    /\ UNCHANGED xvars
    /\ UNCHANGED dvars
    /\ UNCHANGED svars

\* The client answers the ping it was sent: ws.on('pong'), part_003 72-74.
\* Pong for a handler that leaves isAlive as it is.
PongIgnored(w) ==
    /\ sock[w].readyState = "OPEN"
    /\ sock[w].unanswered
    /\ sock' = [sock EXCEPT ![w].ponged = TRUE, ![w].unanswered = FALSE]
    /\ UNCHANGED <<captureService, applescriptService, scriptsInitialized,
                   isRunning, wss, heartbeats, clients, jobs, nJobs, lastSent>>
    /\ UNCHANGED lvars
    /\ UNCHANGED xvars
    /\ UNCHANGED dvars
    /\ UNCHANGED svars
Pong(w) ==
    /\ sock[w].readyState = "OPEN"
    /\ sock[w].unanswered
    /\ sock' = [sock EXCEPT ![w].isAlive = TRUE, ![w].ponged = TRUE,
                            ![w].unanswered = FALSE]
    /\ UNCHANGED <<captureService, applescriptService, scriptsInitialized,
                   isRunning, wss, heartbeats, clients, jobs, nJobs, lastSent>>
    /\ UNCHANGED lvars
    /\ UNCHANGED xvars
    /\ UNCHANGED dvars
    /\ UNCHANGED svars

\* The closing notice of stop(), part_003 388-392.
ClosingNotice(w) ==
    [ws |-> w, job |-> Null, action |-> "", asked |-> Absent,
     hasParam |-> TRUE, type |-> "server_closing", success |-> FALSE,
     error |-> "", requestId |-> Absent]

\* StopSock for a stop() that sends the notice and leaves the socket open.
StopSockNoClose(w) ==
    IF w \notin clients THEN sock[w]
    ELSE [sock[w] EXCEPT !.notified = (sock[w].readyState = "OPEN")]
\* The socket w after stop(), part_003 387-394: a registered socket is
\* sent the notice if it is open (sendMessage) and close() starts its
\* closing handshake.
StopSock(w) ==
    IF w \notin clients THEN sock[w]
    ELSE [sock[w] EXCEPT !.notified = (sock[w].readyState = "OPEN"),
                         !.readyState = IF @ = "OPEN" THEN "CLOSING" ELSE @]

\* stop() on a running bridge, part_003 375-408.  The registry is iterated
\* in insertion order, so the last notice sent is that of the open socket
\* that connected last.
BridgeStop ==
    /\ isRunning
    /\ nBridgeStops < MaxBridgeStops
    /\ nBridgeStops' = nBridgeStops + 1
    /\ heartbeats' = 0
    /\ sock' = [w \in Sockets |-> StopSock(w)]
    /\ LET open == {w \in clients : sock[w].readyState = "OPEN"}
       IN  lastSent' = IF open = {} THEN lastSent
                       ELSE ClosingNotice(CHOOSE w \in open :
                                             \A v \in open : v <= w)
    /\ clients' = {}
    /\ IF wss THEN closing' = closing + 1 ELSE closing' = closing
    /\ wss' = FALSE
    /\ isRunning' = FALSE
    /\ UNCHANGED <<captureService, applescriptService, scriptsInitialized,
                   jobs, nJobs, nTicks, stoppedEmitted>>
    /\ UNCHANGED xvars
    /\ UNCHANGED dvars
    /\ UNCHANGED svars

\* stop() on a bridge that is not running returns at once (part_003 376).
BridgeStopIdle ==
    /\ ~isRunning
    /\ UNCHANGED bvars
    /\ UNCHANGED svars

\* The listener has closed and the callback given to wss.close() runs
\* (part_003 400-403): 'stopped' is emitted.
ListenerClosed ==
    /\ closing > 0
    /\ closing' = closing - 1
    /\ stoppedEmitted' = stoppedEmitted + 1
    /\ UNCHANGED <<captureService, applescriptService, scriptsInitialized,
                   isRunning, wss, heartbeats, clients, sock, jobs, nJobs,
                   lastSent, nTicks, nBridgeStops>>
    /\ UNCHANGED xvars
    /\ UNCHANGED dvars
    /\ UNCHANGED svars

(***************************************************************************)
(* The script executor: AppleScriptService.executeScript, livekit.js       *)
(* 178-234.  createNote, createCalendarEvent and handleAppleScriptRequest  *)
(* each call it with the script they built (call e has script e).          *)
(***************************************************************************)
ScriptPending == [outcome |-> "pending", success |-> FALSE, error |-> ""]
ScriptSuccess == [outcome |-> "returned", success |-> TRUE, error |-> ""]
ScriptFailure(msg) == [outcome |-> "returned", success |-> FALSE, error |-> msg]
ScriptThrew(msg) == [outcome |-> "threw", success |-> FALSE, error |-> msg]

\* Time passes.
ClockTick ==
    /\ now < MaxClock
    /\ now' = now + 1
    /\ UNCHANGED <<files, execs, nExecs>>
    /\ UNCHANGED <<cvars, lvars>>
    /\ UNCHANGED dvars
    /\ UNCHANGED svars

\* executeScript(scriptCode) up to `await fs.writeFile`, livekit.js
\* 178-192: it throws when the service is not initialized, else names the
\* temp file after the clock and starts writing it.
ExecuteScript(e) ==
    /\ e = nExecs + 1
    /\ nExecs' = e
    /\ execs' = [execs EXCEPT ![e] =
          IF ~scriptsInitialized
          THEN [@ EXCEPT !.pc = "done",
                         !.result = ScriptThrew("AppleScript service not initialized")]
          ELSE [@ EXCEPT !.pc = "writing", !.tempFile = TempFile(now),
                         !.result = ScriptPending]]
    /\ UNCHANGED <<now, files>>
    /\ UNCHANGED <<cvars, lvars>>
    /\ UNCHANGED dvars
    /\ UNCHANGED svars

\* fs.writeFile settles, livekit.js 192-198: on success the file holds the
\* script of this call, whatever it held, and the interpreter is spawned
\* on it; on failure the outer catch returns the failure.
WriteDone(e, ok) ==
    /\ execs[e].pc = "writing"
    /\ IF ok
       THEN /\ files' = [files EXCEPT ![execs[e].tempFile] = e]
            /\ execs' = [execs EXCEPT ![e].pc = "spawned"]
       ELSE /\ files' = files
            /\ execs' = [execs EXCEPT ![e].pc = "done",
                                      ![e].result = ScriptFailure("write failed")]
    /\ UNCHANGED <<now, nExecs>>
    /\ UNCHANGED <<cvars, lvars>>
    /\ UNCHANGED dvars
    /\ UNCHANGED svars

\* The interpreter (`osascript "<tempFile>"`, livekit.js 198) opens and
\* reads the file named on its command line: it runs what the file holds
\* then.
OsascriptRead(e) ==
    /\ execs[e].pc = "spawned"
    /\ execs' = [execs EXCEPT ![e].pc = "running",
                              ![e].ran = files[execs[e].tempFile]]
    /\ UNCHANGED <<now, files, nExecs>>
    /\ UNCHANGED <<cvars, lvars>>
    /\ UNCHANGED dvars
    /\ UNCHANGED svars

\* The interpreter exits, with status zero or not (it cannot exit with
\* zero when it found no file), and executeScript calls fs.unlink on
\* either branch: livekit.js 198-203 and 217-222.
OsascriptExit(e, zero) ==
    /\ execs[e].pc = "running"
    /\ zero => execs[e].ran # Null
    /\ execs' = [execs EXCEPT ![e].pc = "unlinking", ![e].exitZero = zero]
    /\ UNCHANGED <<now, files, nExecs>>
    /\ UNCHANGED <<cvars, lvars>>
    /\ UNCHANGED dvars
    /\ UNCHANGED svars

\* What executeScript returns after the interpreter exited: livekit.js
\* 214 and 223-233.
ScriptResult(e) ==
    IF execs[e].exitZero THEN ScriptSuccess ELSE ScriptFailure("osascript failed")

\* UnlinkDone for an executor in which a failed deletion replaces the
\* result.
UnlinkDonePropagates(e, ok) ==
    /\ execs[e].pc = "unlinking"
    /\ ok => files[execs[e].tempFile] # Null
    /\ files' = IF ok THEN [files EXCEPT ![execs[e].tempFile] = Null] ELSE files
    /\ execs' = [execs EXCEPT ![e].pc = "done", ![e].warned = ~ok,
                              ![e].result = IF ok THEN ScriptResult(e)
                                            ELSE ScriptFailure("unlink failed")]
    /\ UNCHANGED <<now, nExecs>>
    /\ UNCHANGED <<cvars, lvars>>
    /\ UNCHANGED dvars
    /\ UNCHANGED svars

\* fs.unlink settles, livekit.js 201-203 and 219-221: it removes the file,
\* or fails (always when there is no such file) and the failure is logged
\* by the .catch; executeScript then returns its result.
UnlinkDone(e, ok) ==
    /\ execs[e].pc = "unlinking"
    /\ ok => files[execs[e].tempFile] # Null
    /\ files' = IF ok THEN [files EXCEPT ![execs[e].tempFile] = Null] ELSE files
    /\ execs' = [execs EXCEPT ![e].pc = "done", ![e].warned = ~ok,
                              ![e].result = ScriptResult(e)]
    /\ UNCHANGED <<now, nExecs>>
    /\ UNCHANGED <<cvars, lvars>>
    /\ UNCHANGED dvars
    /\ UNCHANGED svars

\* ------------------------------------------------------------------
\* The desktop capture service: DesktopCaptureService.captureScreen
\* (capture.js 98-177) and its callers in the bridge.
\* ------------------------------------------------------------------

\* The options object each caller hands to captureScreen.
\* handleScreenshotRequest (part_003 161-165) passes a literal and reads
\* nothing of the request but its requestId; handleCaptureRequest
\* (part_003 205) passes the payload of the message.
CallerOptions(via, request) ==
    IF via = "capture_screenshot"
    THEN [type |-> "screen", sourceId |-> "", quality |-> "low"]
    ELSE request

\* The destructuring defaults of captureScreen (capture.js 99-106).
WithDefaults(o) ==
    [type |-> IF o.type = "" THEN "screen" ELSE o.type,
     sourceId |-> o.sourceId,
     quality |-> IF o.quality = "" THEN "medium" ELSE o.quality]

\* resolutions[quality] || resolutions.medium (capture.js 118).
ThumbnailSize(quality) ==
    IF quality \in Tiers THEN Resolutions[quality] ELSE Resolutions["medium"]

\* Which getSources call captureScreen makes (capture.js 120-133): "" is
\* the branch that makes none and leaves sources empty.
SourceTypes(o) ==
    IF o.type = "screen" \/ o.sourceId = "" THEN "screen"
    ELSE IF o.type = "window" /\ o.sourceId # "" THEN "window"
    ELSE ""

\* The sources captureScreen is left with after getSources resolved.
Sources(o) ==
    IF SourceTypes(o) = "screen" THEN screens
    ELSE SelectSeq(windows, LAMBDA id : id = o.sourceId)

\* if (sources.length === 0) throw ...; const source = sources[0]
\* (capture.js 135-139), then the result object (capture.js 151-157).
Settle(c, sources) ==
    IF Len(sources) = 0
    THEN [c EXCEPT !.pc = "done", !.outcome = "threw",
                   !.error = NoSourcesError, !.avail = screens]
    ELSE [c EXCEPT !.pc = "done", !.outcome = "returned",
                   !.source = Head(sources), !.avail = screens]

\* A display is attached or detached, a window opens or closes.
SourcesChange(scr, win) ==
    /\ <<scr, win>> # <<screens, windows>>
    /\ screens' = scr
    /\ windows' = win
    /\ UNCHANGED <<captures, nCaptures>>
    /\ UNCHANGED <<gvars, uvars, avars>>
    /\ UNCHANGED <<cvars, lvars, xvars>>
    /\ UNCHANGED svars

\* captureScreen(options) up to its first await (capture.js 98-133), called
\* by `via` for a request with the given properties.
CaptureScreen(k, via, request) ==
    /\ k = nCaptures + 1
    /\ k <= MaxCaptures
    /\ LET o == WithDefaults(CallerOptions(via, request))
           c == [NoCapture EXCEPT !.via = via, !.chosen = request.quality,
                                  !.options = o,
                                  !.asked = [types |-> SourceTypes(o),
                                             thumbnailSize |->
                                                 ThumbnailSize(o.quality)]]
       IN captures' = [captures EXCEPT ![k] =
                          IF SourceTypes(o) = ""
                          THEN Settle(c, <<>>)
                          ELSE [c EXCEPT !.pc = "enumerating"]]
    /\ nCaptures' = k
    /\ UNCHANGED <<screens, windows>>
    /\ UNCHANGED <<gvars, uvars, avars>>
    /\ UNCHANGED <<cvars, lvars, xvars>>
    /\ UNCHANGED svars

\* desktopCapturer.getSources settles (capture.js 122-139, 173-176): a
\* rejection is logged and rethrown.
GetSourcesDone(k, ok) ==
    /\ captures[k].pc = "enumerating"
    /\ captures' = [captures EXCEPT ![k] =
          IF ok THEN Settle(@, Sources(@.options))
          ELSE [@ EXCEPT !.pc = "done", !.outcome = "threw",
                         !.error = "getSources failed", !.avail = screens]]
    /\ UNCHANGED <<screens, windows, nCaptures>>
    /\ UNCHANGED <<gvars, uvars, avars>>
    /\ UNCHANGED <<cvars, lvars, xvars>>
    /\ UNCHANGED svars

CaptureNext ==
    \/ \E scr \in ScreenLists, win \in WindowLists : SourcesChange(scr, win)
    \/ \E k \in CaptureIds, via \in Callers,
          request \in [type : CaptureTypes, sourceId : SourceIds,
                       quality : Qualities] : CaptureScreen(k, via, request)
    \/ \E k \in CaptureIds, ok \in BOOLEAN : GetSourcesDone(k, ok)


\* ------------------------------------------------------------------
\* The legacy messages of the bridge: the type switch of handleMessage
\* (part_003 123-147) and its four handlers (part_003 203-324).
\* ------------------------------------------------------------------

\* The type of the message that ends the handling of a legacy message
\* successfully.
Terminal(type) ==
    CASE type = "capture" -> "screenshot"
      [] type = "analyze" -> "analysis"
      [] type = "sources" -> "sources"
      [] type = "save" -> "saved"
      [] type = "ping" -> "pong"
      [] OTHER -> "error"

\* A message of the legacy form sent by the handler j of socket w.
LegacyMessage(w, j, type, error) ==
    [ws |-> w, job |-> j, action |-> "", asked |-> Absent, hasParam |-> TRUE,
     type |-> type, success |-> FALSE, error |-> error, requestId |-> Absent]

\* What the handler of a legacy message does before its first suspension:
\* the messages it sends at once (first, then last), or the work it
\* waits for.
\*   handleCaptureRequest  part_003 203-208: this.captureService.captureScreen
\*                         throws a TypeError without a capture service
\*   handleAnalyzeRequest  part_003 225-241: the status message is sent
\*                         before the service is called
\*   handleSourcesRequest  part_003 262-285: ipcMain.handle throws when the
\*                         channel has a handler already; otherwise the
\*                         handler is registered, ipcMain.emit reaches no
\*                         listener, and nothing ever calls resolve
\*   handleSaveRequest     part_003 301-310
LegacyAnswer(first, type, error) ==
    [pc |-> "done", first |-> first, type |-> type, error |-> error]
LegacyAwait(first, what) ==
    [pc |-> what, first |-> first, type |-> "", error |-> ""]
LegacyDispatch(type, hasData) ==
    CASE type = "capture" ->
           IF ~captureService
           THEN LegacyAnswer("", "error", "Capture failed: TypeError")
           ELSE LegacyAwait("", "capturing")
      [] type = "analyze" ->
           IF ~hasData
           THEN LegacyAnswer("", "error",
                             "No image data provided for analysis")
           ELSE IF ~captureService
           THEN LegacyAnswer("status", "error", "Analysis failed: TypeError")
           ELSE LegacyAwait("status", "analyzing")
      [] type = "sources" ->
           IF ipcSources
           THEN LegacyAnswer("", "error",
                   "Failed to get sources: Attempted to register a second handler")
           ELSE LegacyAwait("", "waiting")
      [] type = "save" ->
           IF ~hasData
           THEN LegacyAnswer("", "error", "No image data provided to save")
           ELSE IF ~captureService
           THEN LegacyAnswer("", "error", "Save failed: TypeError")
           ELSE LegacyAwait("", "saving")
      [] type = "ping" -> LegacyAnswer("", "pong", "")
      [] OTHER -> LegacyAnswer("", "error", "Unknown message type: bogus")

\* ws.on('message') with a well-formed legacy message {type, payload}:
\* part_003 46-57 and handleMessage.  hasData: the payload has a dataUrl.
OnLegacy(w, type, hasData) ==
    /\ sock[w].readyState = "OPEN"
    /\ nLegacy < MaxLegacy
    /\ (type \notin DataTypes => hasData)
    /\ nLegacy' = nLegacy + 1
    /\ LET j == nLegacy + 1
           d == LegacyDispatch(type, hasData)
           last == IF d.type # "" THEN d.type ELSE d.first
       IN  /\ legacy' = [legacy EXCEPT ![j] = [ws |-> w, type |-> type,
                                               pc |-> d.pc, answer |-> d.type]]
           /\ lastSent' = IF last = "" THEN lastSent
                          ELSE SendMessage(LegacyMessage(w, j, last, d.error))
    /\ ipcSources' = (ipcSources \/ type = "sources")
    /\ UNCHANGED <<captureService, applescriptService, scriptsInitialized,
                   isRunning, wss, heartbeats, clients, sock, jobs, nJobs>>
    /\ UNCHANGED <<lvars, xvars, pvars, uvars, avars>>
    /\ UNCHANGED svars

\* The service call a legacy handler waits for settles (captureScreen,
\* analyzeScreenshot, saveScreenshot): the handler sends the result, or its
\* catch sends the error (part_003 208-222, 243-259, 310-323).  A message is
\* sent only on an open socket (sendMessage, part_003 338-342).
LegacyDone(j, ok) ==
    /\ legacy[j].pc \in {"capturing", "analyzing", "saving"}
    /\ LET w == legacy[j].ws
           type == IF ok THEN Terminal(legacy[j].type) ELSE "error"
           error == IF ok THEN "" ELSE "failed"
           open == sock[w].readyState = "OPEN"
       IN  /\ legacy' = [legacy EXCEPT ![j].pc = "done",
                                       ![j].answer = IF open THEN type ELSE ""]
           /\ lastSent' = SendMessage(LegacyMessage(w, j, type, error))
    /\ UNCHANGED <<captureService, applescriptService, scriptsInitialized,
                   isRunning, wss, heartbeats, clients, sock, jobs, nJobs>>
    /\ UNCHANGED <<ipcSources, nLegacy>>
    /\ UNCHANGED <<lvars, xvars, pvars, uvars, avars>>
    /\ UNCHANGED svars

LegacyNext ==
    \/ \E t \in BOOLEAN : BridgeStart(t)
    \/ \E w \in Sockets : ClientConnect(w)
    \/ \E w \in Sockets : ClientClose(w)
    \/ \E w \in Sockets, t \in MessageTypes, h \in BOOLEAN : OnLegacy(w, t, h)
    \/ \E j \in LegacyIds, ok \in BOOLEAN : LegacyDone(j, ok)

\* ------------------------------------------------------------------
\* The script builders of AppleScriptService: executeScriptFile
\* (livekit.js 239-263), createCalendarEvent (268-348), createNote (353-428).
\* ------------------------------------------------------------------

\* Template parameters per executeScriptFile call.
MaxParams == 2

\* String.prototype.replace(/c/g, r) for a one-character pattern c and a
\* replacement r without $ patterns: every c becomes r.
RECURSIVE ReplaceChar(_, _, _)
ReplaceChar(t, c, r) ==
    IF t = <<>> THEN <<>>
    ELSE (IF Head(t) = c THEN r ELSE <<Head(t)>>) \o ReplaceChar(Tail(t), c, r)

\* title.replace(/"/g, '\\"'): livekit.js 292-294 and 369-371.
EscapeQuotes(t) == ReplaceChar(t, DQ, <<BS, DQ>>)
\* .replace(/\n/g, '\\n'): livekit.js 369-370.
EscapeNewlines(t) == ReplaceChar(t, NL, <<BS, "n">>)
\* The text createCalendarEvent embeds for a title or a description
\* (livekit.js 292-293).
EventText(t) == EscapeQuotes(t)
\* The text createNote embeds for a title or a body (livekit.js 369-370).
NoteText(t) == EscapeNewlines(EscapeQuotes(t))

\* The end date of createCalendarEvent with one minute for one hour.
EventEndMinute(start, endDate) ==
    IF endDate # NoDate THEN endDate ELSE start + 60 * 1000
\* endDate || new Date(startDate.getTime() + 60 * 60 * 1000): livekit.js 287.
EventEnd(start, endDate) ==
    IF endDate # NoDate THEN endDate ELSE start + HourMs

\* `{{${key}}}`: livekit.js 253.
Placeholder(key) == <<"{", "{">> \o key \o <<"}", "}">>

\* new RegExp(placeholder, 'g'), livekit.js 254: the pattern as the regular
\* expression engine reads it, a sequence of atoms.  A character followed
\* by + is that character one or more times; a brace that begins no
\* quantifier stands for itself, as every other character here does.
RECURSIVE Atoms(_)
Atoms(p) ==
    IF p = <<>> THEN <<>>
    ELSE IF Len(p) >= 2 /\ p[2] = "+"
    THEN <<[ch |-> p[1], many |-> TRUE]>> \o Atoms(SubSeq(p, 3, Len(p)))
    ELSE <<[ch |-> p[1], many |-> FALSE]>> \o Atoms(Tail(p))

\* The number of consecutive characters c of t from position i on.
RECURSIVE Run(_, _, _)
Run(t, i, c) == IF i <= Len(t) /\ t[i] = c THEN 1 + Run(t, i + 1, c) ELSE 0

SetMax(S) == CHOOSE n \in S : \A m \in S : m <= n

\* The match of the atoms at position i of t: the position after the match,
\* or 0 when there is none.  A repetition is greedy: it takes the most
\* characters for which the rest of the pattern still matches.
RECURSIVE Match(_, _, _)
Match(atoms, t, i) ==
    IF atoms = <<>> THEN i
    ELSE LET a == Head(atoms)
         IN IF ~a.many
            THEN IF i <= Len(t) /\ t[i] = a.ch
                 THEN Match(Tail(atoms), t, i + 1)
                 ELSE 0
            ELSE LET fits == {n \in 1..Run(t, i, a.ch) :
                                 Match(Tail(atoms), t, i + n) # 0}
                 IN IF fits = {} THEN 0
                    ELSE Match(Tail(atoms), t, i + SetMax(fits))

\* The replacement string of String.prototype.replace with the matched
\* text m: $& inserts m, $$ inserts a $.
RECURSIVE Expand(_, _)
Expand(value, m) ==
    IF value = <<>> THEN <<>>
    ELSE IF Len(value) >= 2 /\ value[1] = "$" /\ value[2] = "&"
    THEN m \o Expand(SubSeq(value, 3, Len(value)), m)
    ELSE IF Len(value) >= 2 /\ value[1] = "$" /\ value[2] = "$"
    THEN <<"$">> \o Expand(SubSeq(value, 3, Len(value)), m)
    ELSE <<Head(value)>> \o Expand(Tail(value), m)

\* t.replace(new RegExp(..., 'g'), value) from position i on: the matches
\* are found from left to right and do not overlap.
RECURSIVE ReplaceFrom(_, _, _, _)
ReplaceFrom(t, atoms, value, i) ==
    IF i > Len(t) THEN <<>>
    ELSE LET e == Match(atoms, t, i)
         IN IF e = 0
            THEN <<t[i]>> \o ReplaceFrom(t, atoms, value, i + 1)
            ELSE Expand(value, SubSeq(t, i, e - 1))
                    \o ReplaceFrom(t, atoms, value, e)

\* scriptContent.replace(new RegExp(placeholder, 'g'), value): livekit.js 254.
ReplaceParameter(t, key, value) ==
    ReplaceFrom(t, Atoms(Placeholder(key)), value, 1)

\* The loop over Object.entries(parameters), livekit.js 252-255:
\* parameters is the sequence of the <<key, value>> entries.
RECURSIVE Render(_, _)
Render(t, parameters) ==
    IF parameters = <<>> THEN t
    ELSE Render(ReplaceParameter(t, Head(parameters)[1], Head(parameters)[2]),
                Tail(parameters))

\* The free-text values a caller may give: empty, plain, and texts with a
\* quote, a newline or a backslash.
Texts == {<<>>, <<"a">>, <<DQ>>, <<NL>>, <<BS>>, <<"a", DQ, "b">>, <<BS, DQ>>}
\* Dates, in milliseconds.
Dates == {0, 1800000, 7200000}
\* The keys and values of template parameters, and the templates: up to
\* two pieces, each a word or a placeholder.
Keys == {<<"a">>, <<"a", "+", "b">>}
Values == {<<"T">>, <<"$", "&">>, <<"$", "$">>}
Pieces == {<<>>, <<"x">>, Placeholder(<<"a">>), Placeholder(<<"a", "+", "b">>),
           Placeholder(<<"a", "a", "b">>)}
Templates == {p \o q : p \in Pieces, q \in Pieces}
Entries == {<<k, v>> : k \in Keys, v \in Values}
RECURSIVE SeqsUpTo(_, _)
SeqsUpTo(S, n) ==
    IF n = 0 THEN {<<>>}
    ELSE SeqsUpTo(S, n - 1)
            \cup {Append(q, x) : q \in {r \in SeqsUpTo(S, n - 1) : Len(r) = n - 1},
                                 x \in S}
\* Objects with up to MaxParams entries: the keys of an object are distinct.
Parameters ==
    {q \in SeqsUpTo(Entries, MaxParams) :
        \A i, j \in 1..Len(q) : i # j => q[i][1] # q[j][1]}

\* executeScriptFile(filename, parameters) up to its await of readFile
\* (livekit.js 239-249); template is the content of the file.
ExecuteScriptFile(template, parameters) ==
    /\ build.pc = "idle"
    /\ build' = [NoBuild EXCEPT !.pc = "reading", !.kind = "file",
                                !.template = template,
                                !.parameters = parameters]
    /\ UNCHANGED <<pvars, gvars, avars>>
    /\ UNCHANGED <<cvars, lvars, xvars>>
    /\ UNCHANGED svars

\* readFile settles (livekit.js 249-262): the content is rendered and handed
\* to executeScript, or the catch returns {success:false, error}.
ReadFileDone(ok) ==
    /\ build.pc = "reading"
    /\ build' = IF ok
                THEN [build EXCEPT !.pc = "executing", !.executed = TRUE,
                         !.handed = Render(build.template, build.parameters)]
                ELSE [build EXCEPT !.pc = "done", !.result = "failure"]
    /\ UNCHANGED <<pvars, gvars, avars>>
    /\ UNCHANGED <<cvars, lvars, xvars>>
    /\ UNCHANGED svars

\* createCalendarEvent(options) up to its await of executeScript
\* (livekit.js 268-335).  startDate defaults to new Date().
CreateCalendarEvent(title, description, startDate, endDate) ==
    /\ build.pc = "idle"
    /\ LET start == IF startDate = NoDate THEN now ELSE startDate
       IN build' = [NoBuild EXCEPT !.pc = "executing", !.kind = "event",
                       !.executed = TRUE,
                       !.texts = <<title, description>>,
                       !.literals = <<EventText(title), EventText(description)>>,
                       !.start = start, !.endGiven = endDate,
                       !.end = EventEnd(start, endDate)]
    /\ UNCHANGED <<pvars, gvars, avars>>
    /\ UNCHANGED <<cvars, lvars, xvars>>
    /\ UNCHANGED svars

\* The minutes a create_calendar_event request may give as its duration;
\* 0 stands for none.
Durations == {0, 30}
MinuteMs == 60000
\* handleCalendarRequest(ws, params) of the bridge up to its await
\* (part_003 454-480): the start is new Date() for 'now' and the given time
\* otherwise, the end is Date.now() + duration minutes when a duration is
\* given; the description defaults to ''.  StartNow stands for the
\* start_time 'now'.
StartNow == -2
StartTimes == Dates \cup {StartNow}
RequestStart(startTime) == IF startTime = StartNow THEN now ELSE startTime
RequestEnd(duration) ==
    IF duration # 0 THEN now + duration * MinuteMs ELSE NoDate
HandleCalendarRequest(title, startTime, duration) ==
    /\ build.pc = "idle"
    /\ LET start == RequestStart(startTime)
           endDate == RequestEnd(duration)
       IN build' = [NoBuild EXCEPT !.pc = "executing", !.kind = "event",
                       !.executed = TRUE,
                       !.texts = <<title, <<>> >>,
                       !.literals = <<EventText(title), EventText(<<>>)>>,
                       !.start = start, !.endGiven = endDate,
                       !.end = EventEnd(start, endDate),
                       !.request = <<startTime, duration>>]
    /\ UNCHANGED <<pvars, gvars, avars>>
    /\ UNCHANGED <<cvars, lvars, xvars>>
    /\ UNCHANGED svars

\* createNote(options) up to its await of executeScript (livekit.js 353-415).
CreateNote(title, body) ==
    /\ build.pc = "idle"
    /\ build' = [NoBuild EXCEPT !.pc = "executing", !.kind = "note",
                    !.executed = TRUE,
                    !.texts = <<title, body>>,
                    !.literals = <<NoteText(title), NoteText(body)>>]
    /\ UNCHANGED <<pvars, gvars, avars>>
    /\ UNCHANGED <<cvars, lvars, xvars>>
    /\ UNCHANGED svars

\* executeScript returns its result (livekit.js 178-234) and the builder
\* returns it (livekit.js 258, 347, 427).
BuildDone(ok) ==
    /\ build.pc = "executing"
    /\ build' = [build EXCEPT !.pc = "done",
                              !.result = IF ok THEN "success" ELSE "failure"]
    /\ UNCHANGED <<pvars, gvars, avars>>
    /\ UNCHANGED <<cvars, lvars, xvars>>
    /\ UNCHANGED svars

BuildNext ==
    \/ \E t \in Templates, q \in Parameters : ExecuteScriptFile(t, q)
    \/ \E ok \in BOOLEAN : ReadFileDone(ok)
    \/ \E t \in Texts, d \in Texts, sd \in Dates \cup {NoDate},
          ed \in Dates \cup {NoDate} : CreateCalendarEvent(t, d, sd, ed)
    \/ \E t \in Texts, st \in StartTimes, m \in Durations :
          HandleCalendarRequest(t, st, m)
    \/ \E t \in Texts, b \in Texts : CreateNote(t, b)
    \/ \E ok \in BOOLEAN : BuildDone(ok)

ScriptNext ==
    \/ ClockTick
    \/ \E e \in ExecIds : ExecuteScript(e)
    \/ \E e \in ExecIds, ok \in BOOLEAN : WriteDone(e, ok)
    \/ \E e \in ExecIds : OsascriptRead(e)
    \/ \E e \in ExecIds, zero \in BOOLEAN : OsascriptExit(e, zero)
    \/ \E e \in ExecIds, ok \in BOOLEAN : UnlinkDone(e, ok)

BridgeNext ==
    \/ \E t \in BOOLEAN : BridgeStart(t)
    \/ BridgeStartAgain
    \/ \E w \in Sockets : ClientConnect(w)
    \/ \E w \in Sockets : ClientClose(w)
    \/ \E w \in Sockets, a \in Actions, r \in ReqIds \cup {Absent},
          h \in BOOLEAN : OnMessage(w, a, r, h)
    \/ \E w \in Sockets, p \in Payloads : OnMalformed(w, p)
    \/ \E j \in JobIds, ok \in BOOLEAN : CaptureDone(j, ok)
    \/ \E j \in JobIds, ok \in BOOLEAN : ScriptDone(j, ok)

\* The heartbeat while requests are in flight: the requests are those whose
\* handler waits for a sub-operation, a capture or a script.
InFlightVerbs == {"capture_screenshot", "create_note"}
\* A script handler waits for executeScript (part_003 429, livekit.js 415).
ScriptCalled == \E j \in JobIds : jobs[j].pc = "scripting"
\* An executeScript call has returned ok (success) or not.
ScriptReturned(ok) ==
    \E e \in ExecIds : execs[e].pc = "done" /\ execs[e].result.success = ok
\* executeScript runs for the script handlers, and a script handler resumes
\* when an executeScript call has returned.
EvictionNext ==
    \/ \E t \in BOOLEAN : BridgeStart(t)
    \/ \E w \in Sockets : ClientConnect(w)
    \/ \E w \in Sockets, a \in InFlightVerbs : OnMessage(w, a, Absent, TRUE)
    \/ HeartbeatTick
    \/ \E w \in Sockets : Pong(w)
    \/ \E j \in JobIds, ok \in BOOLEAN : CaptureDone(j, ok)
    \/ \E j \in JobIds, ok \in BOOLEAN : ScriptReturned(ok) /\ ScriptDone(j, ok)
    \/ \E e \in ExecIds : ScriptCalled /\ ExecuteScript(e)
    \/ \E e \in ExecIds, ok \in BOOLEAN : WriteDone(e, ok)
    \/ \E e \in ExecIds : OsascriptRead(e)
    \/ \E e \in ExecIds, zero \in BOOLEAN : OsascriptExit(e, zero)
    \/ \E e \in ExecIds, ok \in BOOLEAN : UnlinkDone(e, ok)

(***************************************************************************)
(* The bridge client: ScreenshotAutomation, src/automation/screenshot.js.  *)
(* It talks to the bridge in the legacy {type, payload} form.              *)
(***************************************************************************)
\* new WebSocket(this.wsUrl) of connect(), screenshot.js 28: the next
\* WebSocket object; this.ws refers to it.
NewConn(k) ==
    /\ conns[k] = "unused"
    /\ \A i \in ConnIds : i < k => conns[i] # "unused"
    /\ conns' = [conns EXCEPT ![k] = "connecting"]

\* connect() called by the user of the client, screenshot.js 23-59.
Connect(k) ==
    /\ NewConn(k)
    /\ auto' = [auto EXCEPT !.ws = k]
    /\ hist' = [hist EXCEPT !.disconnected = FALSE]
    /\ UNCHANGED promises
    /\ UNCHANGED <<pvars, gvars, uvars>>
    /\ UNCHANGED <<cvars, lvars, xvars>>
    /\ UNCHANGED svars

\* The 'open' handler of a WebSocket object, screenshot.js 30-35.
ConnOpen(k) ==
    /\ conns[k] = "connecting"
    /\ conns' = [conns EXCEPT ![k] = "open"]
    /\ auto' = [auto EXCEPT !.isConnected = TRUE]
    /\ UNCHANGED <<promises, hist>>
    /\ UNCHANGED <<pvars, gvars, uvars>>
    /\ UNCHANGED <<cvars, lvars, xvars>>
    /\ UNCHANGED svars

\* scheduleReconnect(), screenshot.js 223-233: arms the timer unless one is
\* pending.
ScheduleReconnect(a) == [a EXCEPT !.reconnectTimer = TRUE]
Armed(a, h) == IF a.reconnectTimer THEN h
               ELSE [h EXCEPT !.armed = @ + 1]

\* The 'close' handler of a WebSocket object, screenshot.js 41-46: the
\* connection failed, the bridge closed it, it was lost, or the closing
\* handshake begun by disconnect() ended.
ConnClose(k) ==
    /\ conns[k] \in {"connecting", "open", "closing"}
    /\ conns' = [conns EXCEPT ![k] = "closed"]
    /\ auto' = ScheduleReconnect([auto EXCEPT !.isConnected = FALSE])
    /\ hist' = Armed(auto, hist)
    /\ UNCHANGED promises
    /\ UNCHANGED <<pvars, gvars, uvars>>
    /\ UNCHANGED <<cvars, lvars, xvars>>
    /\ UNCHANGED svars

\* The callback of the reconnect timer, screenshot.js 226-232: the timer
\* is forgotten and connect() is called.
ReconnectFire(k) ==
    /\ hist.armed > 0
    /\ NewConn(k)
    /\ auto' = [auto EXCEPT !.reconnectTimer = FALSE, !.ws = k]
    /\ hist' = [hist EXCEPT !.armed = @ - 1]
    /\ UNCHANGED promises
    /\ UNCHANGED <<pvars, gvars, uvars>>
    /\ UNCHANGED <<cvars, lvars, xvars>>
    /\ UNCHANGED svars

\* disconnect(), screenshot.js 238-251: the timer is cleared, the socket
\* is closed (its 'close' event comes later) and forgotten, the table of
\* pending requests is emptied.
Disconnect ==
    /\ auto' = [auto EXCEPT !.reconnectTimer = FALSE, !.ws = Null,
                            !.isConnected = FALSE, !.pendingRequests = {}]
    /\ hist' = [armed |-> IF auto.reconnectTimer THEN hist.armed - 1
                          ELSE hist.armed,
                disconnected |-> TRUE]
    /\ conns' = [k \in ConnIds |->
                   IF k = auto.ws /\ conns[k] \in {"connecting", "open"}
                   THEN "closing" ELSE conns[k]]
    /\ UNCHANGED promises
    /\ UNCHANGED <<pvars, gvars, uvars>>
    /\ UNCHANGED <<cvars, lvars, xvars>>
    /\ UNCHANGED svars

\* sendRequest(type, payload), screenshot.js 111-138, on an open socket:
\* the next request id, the entry in pendingRequests, the message
\* {type, payload, requestId, timestamp}, the 30 s timer.
SendRequest(type) ==
    /\ auto.isConnected
    /\ auto.ws # Null /\ conns[auto.ws] = "open"
    /\ auto.requestId < MaxRequests
    /\ LET r == auto.requestId + 1
       IN  /\ auto' = [auto EXCEPT !.requestId = r,
                                   !.pendingRequests = @ \cup {r}]
           /\ promises' = [promises EXCEPT ![r] =
                 [NoPromise EXCEPT !.type = type, !.conn = auto.ws,
                                   !.state = "pending", !.timer = TRUE]]
    /\ UNCHANGED <<conns, hist>>
    /\ UNCHANGED <<pvars, gvars, uvars>>
    /\ UNCHANGED <<cvars, lvars, xvars>>
    /\ UNCHANGED svars

\* The message the handler of the bridge sends in the end for request r of
\* the client: the result of its type, or the error of its catch
\* (part_003 203-223, 243-259, 286-298, 310-323).
BridgeResponse(r, ok) ==
    LegacyMessage(promises[r].conn, r,
                  IF ok THEN Terminal(promises[r].type) ELSE "error",
                  IF ok THEN "" ELSE "failed")

\* handleMessage(message), screenshot.js 64-78: a message that carries the
\* requestId of a pending request settles it, by reject when it has an
\* error, and removes its entry.
Correlated(message) ==
    message.requestId # Absent /\ message.requestId \in auto.pendingRequests
SettledBy(p, message) ==
    [p EXCEPT !.state = IF message.error # "" THEN "rejected" ELSE "resolved",
              !.by = "response"]

\* The 'message' handler of a WebSocket object, screenshot.js 37-39, for
\* the response of the bridge to request r (handleSourcesRequest never
\* sends a result).  Other messages only emit events (screenshot.js 80-105).
OnResponse(r, ok) ==
    /\ promises[r].state # "unused"
    /\ ~promises[r].answered
    /\ conns[promises[r].conn] = "open"
    /\ promises[r].type = "sources" => ~ok
    /\ LET message == BridgeResponse(r, ok)
           p == [promises[r] EXCEPT !.answered = TRUE,
                                    !.failed = (message.error # "")]
       IN  IF Correlated(message)
           THEN /\ auto' = [auto EXCEPT !.pendingRequests =
                                           @ \ {message.requestId}]
                /\ promises' = [promises EXCEPT ![r] = SettledBy(p, message)]
           ELSE /\ promises' = [promises EXCEPT ![r] = p]
                /\ UNCHANGED auto
    /\ UNCHANGED <<conns, hist>>
    /\ UNCHANGED <<pvars, gvars, uvars>>
    /\ UNCHANGED <<cvars, lvars, xvars>>
    /\ UNCHANGED svars

\* The callback of the 30 s timer of request r, screenshot.js 131-136.
RequestTimeout(r) ==
    /\ promises[r].timer
    /\ IF r \in auto.pendingRequests
       THEN /\ auto' = [auto EXCEPT !.pendingRequests = @ \ {r}]
            /\ promises' = [promises EXCEPT ![r].timer = FALSE,
                                            ![r].state = "rejected",
                                            ![r].by = "timeout"]
       ELSE /\ promises' = [promises EXCEPT ![r].timer = FALSE]
            /\ UNCHANGED auto
    /\ UNCHANGED <<conns, hist>>
    /\ UNCHANGED <<pvars, gvars, uvars>>
    /\ UNCHANGED <<cvars, lvars, xvars>>
    /\ UNCHANGED svars

AutoNext ==
    \/ \E k \in ConnIds : Connect(k)
    \/ \E k \in ConnIds : ConnOpen(k)
    \/ \E k \in ConnIds : ConnClose(k)
    \/ \E k \in ConnIds : ReconnectFire(k)
    \/ Disconnect
    \/ \E t \in RequestTypes : SendRequest(t)
    \/ \E r \in RequestIds, ok \in BOOLEAN : OnResponse(r, ok)
    \/ \E r \in RequestIds : RequestTimeout(r)

\* The life cycle of the bridge: connections, heartbeat and shutdown.
LifecycleNext ==
    \/ \E t \in BOOLEAN : BridgeStart(t)
    \/ BridgeStartAgain
    \/ \E w \in Sockets : ClientConnect(w)
    \/ \E w \in Sockets : ClientClose(w)
    \/ \E w \in Sockets : ClientError(w)
    \/ HeartbeatTick
    \/ \E w \in Sockets : Pong(w)
    \/ BridgeStop
    \/ BridgeStopIdle
    \/ ListenerClosed

\* The bridge as main/index.js builds it (both services given), at rest.
BridgeRest ==
    /\ captureService = TRUE
    /\ applescriptService = TRUE
    /\ scriptsInitialized = TRUE
    /\ isRunning = FALSE
    /\ wss = FALSE
    /\ heartbeats = 0
    /\ clients = {}
    /\ sock = [w \in Sockets |-> NoSock]
    /\ jobs = [j \in JobIds |-> NoJob]
    /\ nJobs = 0
    /\ lastSent = NoMessage
    /\ nTicks = 0
    /\ nBridgeStops = 0
    /\ closing = 0
    /\ stoppedEmitted = 0
    /\ ExecRest
    /\ CaptureRest
    /\ LegacyRest
    /\ BuildRest
    /\ AutoRest

\* The session supervisor at rest, fully configured.
SessionRest ==
    /\ config = [url |-> TRUE, apiKey |-> TRUE, apiSecret |-> TRUE]
    /\ errorListener = TRUE
    /\ currentRoom = Null
    /\ isConnected = FALSE
    /\ agentProcess = Null
    /\ proc = [p \in Pids |-> NoProc]
    /\ killTimers = {}
    /\ starts = [c \in StartIds |-> NewStart]
    /\ stops = [s \in StopIds |-> NewStop]
    /\ mq = <<>>
    /\ draining = FALSE
    /\ events = <<>>
    /\ nStarts = 0
    /\ nStops = 0
    /\ graceElapsed = {}
    /\ successSinceIdle = 0

SessionNext ==
    \/ \E c \in StartIds, f \in BOOLEAN, t \in BOOLEAN : StartSession(c, f, t)
    \/ \E c \in StartIds : StartAfterAgent(c)
    \/ \E c \in StartIds, ok \in BOOLEAN : JwtSettle(c, ok)
    \/ \E c \in StartIds : GenerateTokenReturn(c)
    \/ \E c \in StartIds : StartSucceed(c)
    \/ \E c \in StartIds : StartFail(c)
    \/ \E s \in StopIds : StopSession(s)
    \/ \E s \in StopIds : StopFinish(s)
    \/ \E p \in Pids : KillTimerFire(p)
    \/ \E p \in Pids : AgentExit(p)
    \/ RegisterVoiceHandlers

vars == <<svars, bvars>>
\* The session supervisor, the bridge at rest.
Init == SessionInit /\ BridgeRest
Next == SessionNext
Spec == Init /\ [][Next]_vars

\* The automation bridge, the session supervisor at rest.
BridgeSpecInit == BridgeInit /\ SessionRest
BridgeSpec == BridgeSpecInit /\ [][BridgeNext]_vars

\* The script executor, initialized or not; the bridge and the session
\* supervisor at rest.
ScriptSpecInit ==
    /\ BridgeInit /\ captureService /\ applescriptService
    /\ SessionRest
ScriptSpec == ScriptSpecInit /\ [][ScriptNext]_vars

\* The heartbeat and the requests in flight, the bridge as main/index.js
\* builds it.
EvictionInit == BridgeRest /\ SessionRest
EvictionSpec == EvictionInit /\ [][EvictionNext]_vars

\* The script builders, the bridge and the session at rest.
BuildInit == BridgeRest /\ SessionRest
BuildSpec == BuildInit /\ [][BuildNext]_vars

\* The legacy messages: a bridge built with or without a capture service.
LegacyInit ==
    BridgeInit /\ applescriptService /\ scriptsInitialized /\ SessionRest
LegacySpec == LegacyInit /\ [][LegacyNext]_vars

\* The bridge client, the bridge and the session at rest.
AutoInit == BridgeRest /\ SessionRest
AutoSpec == AutoInit /\ [][AutoNext]_vars

\* The capture service, the rest of the bridge and the session at rest.
CaptureInit == BridgeRest /\ SessionRest
CaptureSpec == CaptureInit /\ [][CaptureNext]_vars

\* The life cycle of the bridge as main/index.js builds it, the session
\* supervisor at rest.
LifecycleInit == BridgeRest /\ SessionRest
\* A listener that was closed does close: its callback runs in the end.
LifecycleSpec ==
    LifecycleInit /\ [][LifecycleNext]_vars /\ WF_vars(ListenerClosed)

(***************************************************************************)
(* Properties of the session supervisor.                                   *)
(***************************************************************************)
Running == {p \in Pids : proc[p].st = "running"}
StartInProgress == \E c \in StartIds : starts[c].pc \notin {"new", "done"}
StopInProgress == \E s \in StopIds : stops[s].pc \notin {"new", "done"}
Settled == ~StartInProgress /\ ~StopInProgress /\ mq = <<>>
\* call c is being issued in this step
Issued(c) == starts[c].pc = "new" /\ starts'[c].pc # "new"

\* C1: at most one start() returns success:true without an intervening
\* stop() that took the session to Idle, for any interleaving of start()
\* and stop(), overlapping start() calls included.
C1_AtMostOneSuccess == successSinceIdle <= 1

\* C2 as stated: every start() issued while the session is Connected
\* returns {success:false, error:"already connected"} and changes neither
\* the room id, the handle, the processes, the state nor the events.
C2_AlreadyConnectedAsStated ==
    [][\A c \in StartIds : (Issued(c) /\ isConnected) =>
          /\ starts'[c].res = Failure("already connected")
          /\ UNCHANGED <<currentRoom, agentProcess, proc, killTimers,
                         isConnected, events>>]_vars

\* C2 amended: every start() issued while the session is Connected returns
\* {success:false, error:"Already connected to a session"} at once and
\* changes neither the room id, the handle, the processes (so the number of
\* live ones), the state nor the events emitted.
C2_AlreadyConnected ==
    [][\A c \in StartIds : (Issued(c) /\ isConnected) =>
          /\ starts'[c].pc = "done"
          /\ starts'[c].res = Failure(ErrAlreadyConnected)
          /\ Running' = Running
          /\ UNCHANGED <<currentRoom, agentProcess, proc, killTimers,
                         isConnected, events>>]_vars

\* C2 witness: a start() was issued while Connected, with a live agent
\* process, and has returned.
C2_Witness ==
    \E c \in StartIds : /\ starts[c].connectedAtCall
                        /\ starts[c].pc = "done"
                        /\ starts[c].res.error = ErrAlreadyConnected
                        /\ isConnected /\ Running # {}

\* C3: start() immediately followed by stop() leaves the session Idle and
\* the handle null once both calls have settled, whatever the timing
\* (stated for a start() that meets no error).
C3_StartThenStopIdle ==
    (/\ nStarts = 1 /\ nStops = 1 /\ stops[1].startsBefore = 1
     /\ starts[1].pc = "done" /\ stops[1].pc = "done" /\ mq = <<>>
     /\ starts[1].err = "")
    => (~isConnected /\ agentProcess = Null)

\* C4: a start() that hits a configuration error or a signing failure
\* returns {success:false, error}; its promise never rejects, with or
\* without an 'error' listener.
C4_FailureIsReturned ==
    \A c \in StartIds : (starts[c].pc = "done" /\ starts[c].err # "")
        => starts[c].res = Failure(starts[c].err)

\* C5: a start() whose agent spawn failed (entry file missing, or spawn
\* threw) returns {success:false, error} and the session is not Connected.
C5_SpawnFailureFails ==
    \A c \in StartIds : (starts[c].pc = "done" /\ starts[c].spawnFailed)
        => (starts[c].res.outcome = "returned" /\ ~starts[c].res.success)

\* C6: a process that is still alive when the grace period of the stop()
\* that signalled it elapses is force-killed.
C6_ForcedKillAfterGrace == \A p \in graceElapsed : proc[p].sigkill

\* C7: whenever the session is Idle and no start() or stop() is in
\* progress, the handle is null and no spawned agent process is alive.
C7_NoProcessWhenIdle ==
    (~isConnected /\ Settled) => (agentProcess = Null /\ Running = {})

\* C8: start() spawns iff no handle exists (spawn failures aside), and at
\* most one spawned agent process is alive at a time.
C8_AtMostOneProcess ==
    /\ \A c \in StartIds :
          (starts[c].pc \notin {"new"} /\ ~starts[c].connectedAtCall
           /\ starts[c].err # ErrNoUrl /\ ~starts[c].spawnFailed)
          => (starts[c].spawned <=> ~starts[c].hadHandle)
    /\ Cardinality(Running) <= 1

\* C9: when the agent process of a Connected session exits unexpectedly
\* (no signal was sent to it), the session becomes Idle and the handle is
\* cleared, so status() reports isConnected = false.
C9_ExitEndsSession ==
    [][\A p \in Pids :
          (/\ isConnected /\ agentProcess = p /\ ~proc[p].killed
           /\ proc[p].st = "running" /\ proc'[p].st = "exited")
          => (agentProcess' = Null /\ ~GetRoomInfo'.isConnected)]_vars

(***************************************************************************)
(* Properties of the automation bridge.                                    *)
(***************************************************************************)
\* C10: every response carries the requestId of its request when one was
\* supplied and has no requestId otherwise, for every verb and for the
\* unknown-verb error.
C10_RequestIdEchoed ==
    lastSent # NoMessage => lastSent.requestId = lastSent.asked

\* message number nJobs + 1 arrives on socket w in this step, and is the
\* action message a
Arrives(w) == sock[w].readyState = "OPEN" /\ nJobs' = nJobs + 1
ArrivesAction(w, a) ==
    /\ Arrives(w)
    /\ \/ jobs'[nJobs'].ws = w /\ jobs'[nJobs'].action = a
       \/ lastSent'.job = nJobs' /\ lastSent'.ws = w /\ lastSent'.action = a

\* C11: the unrecognized verb "foo_bar" is answered {success:false,
\* error:"Unknown verb: foo_bar"} with the requestId of the request if it
\* had one; the connection is not closed and stays in the registry.
C11_UnknownVerb ==
    [][\A w \in Sockets : ArrivesAction(w, "foo_bar") =>
          /\ lastSent'.job = nJobs' /\ lastSent'.ws = w
          /\ lastSent'.success = FALSE
          /\ lastSent'.error = "Unknown verb: foo_bar"
          /\ lastSent'.requestId = lastSent'.asked
          /\ sock'[w].readyState = "OPEN" /\ w \in clients']_vars

\* a message that is not a JSON object arrives on socket w in this step
ArrivesMalformed(w) == sock'[w].malformed = sock[w].malformed + 1

\* C12: a payload that is not valid JSON, or is JSON but not an object, is
\* answered with a structured error on the same connection; the connection
\* is neither closed nor removed from the registry, and a later valid
\* request on it is still served (it is dispatched and answered on it).
C12_MalformedAnswered ==
    [][\A w \in Sockets :
          /\ ArrivesMalformed(w) =>
                /\ lastSent'.job = nJobs' /\ lastSent'.ws = w
                /\ lastSent'.type = "error" /\ lastSent'.error # ""
                /\ sock'[w].readyState = "OPEN" /\ w \in clients'
                /\ clients' = clients
          /\ (sock[w].malformed > 0 /\ ArrivesAction(w, "ping")) =>
                /\ lastSent'.job = nJobs' /\ lastSent'.ws = w
                /\ lastSent'.success]_vars

\* C12 witness: a valid request was answered with success on a connection
\* on which a malformed payload had been answered before.
C12_Witness ==
    \E w \in Sockets : /\ sock[w].malformed > 0 /\ sock[w].readyState = "OPEN"
                        /\ w \in clients
                        /\ lastSent.ws = w /\ lastSent.success

\* C15: the three script verbs validate their required parameter before
\* dispatch: a request that lacks it (the script source, the title), or
\* that arrives when the bridge has no AppleScript service, is answered
\* {success:false, error} and the service is not invoked for it.
C15_ValidatedBeforeDispatch ==
    /\ \A j \in JobIds : jobs[j].pc = "scripting"
           => (jobs[j].hasParam /\ applescriptService)
    /\ (lastSent.action \in ScriptVerbs
        /\ (~lastSent.hasParam \/ ~applescriptService))
           => (~lastSent.success /\ lastSent.error # "")

\* the handler of message j ends in this step, after its await
Finishes(j) == jobs[j].pc # "unused" /\ jobs'[j].pc = "unused"
\* message number nJobs + 1 arrives and its handler ends in this step
HandledAtOnce == nJobs' = nJobs + 1 /\ jobs'[nJobs'].pc = "unused"
\* a failure response to request req: {success:false, error}, with the
\* requestId for capture_screenshot
StructuredFailure(m, req) ==
    ~m.success => /\ m.error # ""
                  /\ req.action = "capture_screenshot"
                        => m.requestId = req.requestId
\* the step neither closes a connection nor stops the bridge
KeepsServing ==
    /\ \A w \in Sockets : sock'[w].readyState = sock[w].readyState
    /\ clients' = clients /\ isRunning' = isRunning /\ wss' = wss

\* C16: every failure inside the handler of a command verb (service
\* missing, no capture source, script service not initialized, script
\* failing) is caught and produces exactly one {success:false, error}
\* response on the requesting connection if it is open, with the
\* requestId for capture_screenshot: the handler sends one response when it
\* ends and none before; the connection stays open and the bridge keeps
\* serving.
C16_FailureIsOneResponse ==
    /\ [][\A j \in JobIds : Finishes(j) =>
            /\ sock[jobs[j].ws].readyState = "OPEN" =>
                  /\ lastSent'.job = j /\ lastSent'.ws = jobs[j].ws
                  /\ lastSent'.action = jobs[j].action
                  /\ StructuredFailure(lastSent', jobs[j])
            /\ sock[jobs[j].ws].readyState # "OPEN" => lastSent' = lastSent
            /\ KeepsServing]_vars
    /\ [][HandledAtOnce =>
            /\ lastSent'.job = nJobs'
            /\ sock[lastSent'.ws].readyState = "OPEN"
            /\ lastSent'.action \in Verbs =>
                  StructuredFailure(lastSent',
                      [action |-> lastSent'.action,
                       requestId |-> lastSent'.asked])
            /\ KeepsServing]_vars
    /\ [](\A j \in JobIds : jobs[j].pc # "unused" => lastSent.job # j)

\* C16 witness: a capture_screenshot request with a requestId failed after
\* its await (no capture source) and was answered {success:false, error,
\* requestId} on its connection, which is open and registered.
C16_Witness ==
    /\ lastSent.action = "capture_screenshot" /\ ~lastSent.success
    /\ lastSent.error = "No capture sources available"
    /\ lastSent.asked # Absent /\ lastSent.requestId = lastSent.asked
    /\ sock[lastSent.ws].readyState = "OPEN" /\ lastSent.ws \in clients
    /\ isRunning

\* C17: a response is sent only on the socket that issued its request and
\* only while that socket is open, so no client receives the response to
\* another client's request; and a handler that awaits slow work never
\* delays the dispatch of another message: a message is dispatched
\* whenever its socket is open, whatever handlers are in flight.
C17_OwnSocketOnly ==
    /\ [][lastSent' # lastSent =>
            /\ sock[lastSent'.ws].readyState = "OPEN"
            /\ \/ HandledAtOnce /\ lastSent'.job = nJobs'
               \/ \E j \in JobIds : /\ Finishes(j) /\ lastSent'.job = j
                                     /\ lastSent'.ws = jobs[j].ws]_vars
    /\ [](\A w \in Sockets :
            (sock[w].readyState = "OPEN" /\ nJobs < MaxJobs)
               => ENABLED OnMessage(w, "ping", Absent, TRUE))

\* C17 witness: while the handler of one client's request is still
\* awaiting, a later request of another client has been answered on that
\* other client's socket.
C17_Witness ==
    \E j \in JobIds : /\ jobs[j].pc # "unused"
                       /\ lastSent.job > j
                       /\ lastSent.ws # jobs[j].ws
                       /\ lastSent.action \in Verbs
                       /\ sock[jobs[j].ws].readyState = "OPEN"

\* C18: on one connection the handlers are invoked in arrival order (the
\* k-th message is dispatched when it arrives, and no message of a later
\* number before it), and a handler that awaits does not block the
\* dispatch of the next message of the same connection, so the response
\* to a later request can be sent before that to an earlier one.
C18_ArrivalOrderNoBlocking ==
    /\ [][nJobs' = nJobs + 1 =>
            (jobs'[nJobs'].pc # "unused" \/ lastSent'.job = nJobs')]_vars
    /\ [](\A j \in JobIds :
            j > nJobs => (jobs[j].pc = "unused" /\ lastSent.job # j))
    /\ [](\A j \in JobIds :
            (/\ jobs[j].pc # "unused" /\ nJobs < MaxJobs
             /\ sock[jobs[j].ws].readyState = "OPEN")
            => ENABLED OnMessage(jobs[j].ws, "ping", Absent, TRUE))

\* C18 witness: the response to a later request has been sent on a
\* connection while the handler of an earlier request of the same
\* connection is still awaiting.
C18_Witness ==
    \E j \in JobIds : /\ jobs[j].pc # "unused"
                       /\ lastSent.job > j
                       /\ lastSent.ws = jobs[j].ws
                       /\ lastSent.action \in Verbs

(***************************************************************************)
(* Properties of the life cycle of the bridge.                             *)
(***************************************************************************)
\* C13: a client that never answers a ping is removed from the registry
\* and its socket is terminated no later than the second heartbeat tick
\* after its connection was accepted.
C13_EvictedBySecondTick ==
    \A w \in Sockets : (sock[w].ticks >= 2 /\ ~sock[w].ponged)
        => (w \notin clients /\ sock[w].readyState = "CLOSED")

\* C13 witness: the second tick after its connection has evicted and
\* terminated a client that answered no ping and that had stayed open.
C13_Witness ==
    \E w \in Sockets : /\ sock[w].ticks = 2 /\ ~sock[w].ponged
                        /\ w \notin clients /\ sock[w].readyState = "CLOSED"

\* stop() is called on a running bridge in this step
Stops == nBridgeStops' = nBridgeStops + 1

\* C14: stop() sends the closing notice to every client that is open at
\* that moment and closes each of them, leaves the registry empty and
\* closes the listener; stop() acts only on a running bridge; every such
\* stop() is followed by exactly one 'stopped' event: never more events
\* than stops, and in the end as many.
C14_Shutdown ==
    /\ [][Stops =>
            /\ isRunning
            /\ \A w \in Sockets : sock[w].readyState = "OPEN" =>
                   (sock'[w].notified /\ sock'[w].readyState # "OPEN")
            /\ (\E w \in Sockets : sock[w].readyState = "OPEN")
                  => lastSent'.type = "server_closing"
            /\ clients' = {}
            /\ ~wss' /\ ~isRunning' /\ heartbeats' = 0
            /\ closing' = closing + 1]_vars
    /\ [](stoppedEmitted + closing = nBridgeStops)
    /\ (closing > 0 ~> closing = 0)

\* C14 witness: a bridge with two open clients was stopped, both were sent
\* the notice and are closing or closed, and 'stopped' has been emitted
\* once.
C14_Witness ==
    /\ nBridgeStops = 1 /\ stoppedEmitted = 1 /\ closing = 0
    /\ clients = {} /\ ~isRunning /\ ~wss
    /\ \A w \in {1, 2} : sock[w].notified /\ sock[w].readyState # "OPEN"

(***************************************************************************)
(* Properties of the script executor.                                      *)
(***************************************************************************)
\* call e returns in this step, after the interpreter ran
ReturnsAfterRun(e) == execs[e].pc = "unlinking" /\ execs'[e].pc = "done"

InFlight(e) == execs[e].pc \notin {"new", "done"}

\* C20: no two script jobs in flight share a temp file path, and the
\* interpreter of a job runs the script of that job: not another job's
\* (overwritten), and not nothing (deleted by another job).
C20_DistinctTempFiles ==
    /\ \A e1, e2 \in ExecIds :
          (e1 # e2 /\ InFlight(e1) /\ InFlight(e2))
             => execs[e1].tempFile # execs[e2].tempFile
    /\ \A e \in ExecIds :
          execs[e].pc \in {"running", "unlinking"} => execs[e].ran = e

\* ------------------------------------------------------------------
\* The desktop capture service (CaptureSpec).
\* ------------------------------------------------------------------

\* C21: a capture made for the capture_screenshot verb is requested at the
\* preset of the quality tier the request named (low 1280x720, medium
\* 1920x1080, high 2560x1440).
C21_CapturedAtChosenTier ==
    \A k \in CaptureIds :
        (/\ captures[k].via = "capture_screenshot"
         /\ captures[k].pc # "new"
         /\ captures[k].chosen \in Tiers)
            => captures[k].asked.thumbnailSize = Resolutions[captures[k].chosen]

\* the call settled, and not because desktopCapturer itself failed
Selected(k) ==
    captures[k].pc = "done" /\ captures[k].error # "getSources failed"

\* C25: captureScreen fails explicitly when it is left with no source; for
\* type window with a sourceId it returns the source with that id or
\* fails; in every other case it returns the first available screen
\* source; a quality that is not a tier is captured at the medium preset.
C25_SourceSelection ==
    \A k \in CaptureIds :
        LET c == captures[k]
            o == c.options
        IN /\ Selected(k) =>
                 IF o.type = "window" /\ o.sourceId # ""
                 THEN \/ c.outcome = "returned" /\ c.source = o.sourceId
                      \/ c.outcome = "threw" /\ c.error = NoSourcesError
                 ELSE IF Len(c.avail) = 0
                 THEN c.outcome = "threw" /\ c.error = NoSourcesError
                 ELSE c.outcome = "returned" /\ c.source = Head(c.avail)
           /\ (c.pc # "new" /\ o.quality \notin Tiers)
                 => c.asked.thumbnailSize = Resolutions["medium"]

\* ------------------------------------------------------------------
\* The legacy messages (LegacySpec).
\* ------------------------------------------------------------------

\* the handler of legacy message j ended and its response was sent
Answered(j) == legacy[j].pc = "done" /\ legacy[j].answer # ""

\* C22: the handling of a recognized legacy message ends with the response
\* of the matching type (capture: screenshot, analyze: analysis, sources:
\* sources, save: saved) or with an error response; a sources request,
\* whose enumeration of the sources cannot have failed because it never
\* began, is answered with the sources list, the first and every later one.
C22_LegacyAnswered ==
    \A j \in LegacyIds :
        (Answered(j) /\ legacy[j].type \in LegacyTypes)
           => /\ legacy[j].answer \in {Terminal(legacy[j].type), "error"}
              /\ legacy[j].type = "sources" => legacy[j].answer = "sources"

\* ------------------------------------------------------------------
\* The script builders (BuildSpec).
\* ------------------------------------------------------------------

\* sub occurs in t
Occurs(sub, t) ==
    \E i \in 1..Len(t) : i + Len(sub) - 1 <= Len(t)
                         /\ SubSeq(t, i, i + Len(sub) - 1) = sub

\* C23: the source executeScriptFile hands to executeScript contains no
\* {{key}} placeholder of any supplied key, and when the template cannot be
\* read the call returns a failure and nothing is executed.
C23_PlaceholdersReplaced ==
    build.kind = "file" =>
        /\ build.executed =>
              \A i \in 1..Len(build.parameters) :
                  ~Occurs(Placeholder(build.parameters[i][1]), build.handed)
        /\ (build.pc = "done" /\ ~build.executed) => build.result = "failure"

\* The end of the string literal that begins before position i of t, as
\* AppleScript reads it: a backslash takes the next character with it, the
\* first quote that is left ends the literal.  0: the literal does not end.
RECURSIVE LiteralEnd(_, _)
LiteralEnd(t, i) ==
    IF i > Len(t) THEN 0
    ELSE IF t[i] = BS THEN LiteralEnd(t, i + 2)
    ELSE IF t[i] = DQ THEN i
    ELSE LiteralEnd(t, i + 1)

\* every quote of t follows a backslash and t has no newline character
Escaped(t) ==
    \A i \in 1..Len(t) : /\ t[i] # NL
                         /\ t[i] = DQ => (i > 1 /\ t[i - 1] = BS)

\* C24: in the script of createCalendarEvent and createNote every quote and
\* every newline of a free-text value (title, body, description) is
\* escaped, and the literal "..." a value is embedded in ends at the quote
\* the template closes it with, not before and not after.
C24_FreeTextEscaped ==
    build.kind \in {"event", "note"} =>
        \A i \in 1..Len(build.literals) :
            /\ Escaped(build.literals[i])
            /\ LiteralEnd(build.literals[i] \o <<DQ>>, 1)
                  = Len(build.literals[i]) + 1

\* C26: createCalendarEvent uses start + 1 hour as the end time when no
\* end time is supplied, and the supplied end time otherwise.
C26_EndTime ==
    build.kind = "event" =>
        build.end = IF build.endGiven = NoDate THEN build.start + 3600000
                    ELSE build.endGiven
\* an event was created from a start date and no end date
C26_Witness ==
    /\ build.kind = "event" /\ build.pc = "done"
    /\ build.endGiven = NoDate
    /\ build.start \in Dates /\ build.end = build.start + 3600000

\* ------------------------------------------------------------------
\* The heartbeat and the requests in flight (EvictionSpec).
\* ------------------------------------------------------------------

\* the handler j waits for its sub-operation and the heartbeat has
\* terminated its socket
Abandoned(j) ==
    /\ jobs[j].pc \in {"capturing", "scripting"}
    /\ sock[jobs[j].ws].readyState = "CLOSED"
    /\ jobs[j].ws \notin clients

Accepted(w) == sock[w].readyState = "NONE" /\ sock'[w].readyState = "OPEN"

\* C28: a connection enters the registry exactly when it is accepted, and
\* then its heartbeat state is alive; a registered connection leaves the
\* registry exactly when it stops being open, by its close, an error, its
\* eviction by the heartbeat or the shutdown; the registry never holds a
\* connection that is not open, in particular none whose close event was
\* processed; and the close of a connection that was removed before leaves
\* the registry as it is.
C28_Registry ==
    /\ [](\A w \in clients : sock[w].readyState = "OPEN")
    /\ [][\A w \in Sockets :
            /\ (w \notin clients /\ w \in clients') <=> Accepted(w)
            /\ Accepted(w) => sock'[w].isAlive
            /\ w \in clients =>
                  (w \notin clients' <=> sock'[w].readyState # "OPEN")
            /\ (w \notin clients /\ sock[w].readyState = "CLOSING"
                   /\ sock'[w].readyState = "CLOSED") => clients' = clients]_vars
\* C28 witness: one connection is registered and alive, and the close event
\* of another, which the shutdown had removed before, was processed.
C28_Witness ==
    \E v, w \in Sockets :
        /\ v \in clients /\ sock[v].isAlive
        /\ w \notin clients /\ sock[w].readyState = "CLOSED"
        /\ sock[w].notified

\* ------------------------------------------------------------------
\* The session supervisor: rooms and the forced-kill timer (Spec).
\* ------------------------------------------------------------------

\* the agent process the supervisor holds is running
AgentLive == agentProcess # Null /\ proc[agentProcess].st = "running"

\* C29: whenever the session is connected and its agent process is alive,
\* the room the agent was spawned with (ROOM_NAME) is the room of the
\* session, and every successful start() returned a roomName that is the
\* room its token is scoped to and, while that session lasts, the room of
\* the live agent.
C29_OneRoom ==
    (isConnected /\ AgentLive) =>
        /\ proc[agentProcess].room = currentRoom
        /\ \A c \in StartIds :
              (starts[c].res.success /\ starts[c].res.roomName = currentRoom)
                 => starts[c].res.token = starts[c].res.roomName

\* the forced-kill timer armed by the stop() that was stopping process p
\* fires in this step
TimerFires(p) == p \in killTimers /\ p \notin killTimers'

\* C30: the forced-kill timer of a stop() signals no process but the one
\* that stop() was stopping: the agent of a session started within the
\* grace period gets no SIGKILL from it.
C30_TimerKillsOwnProcessOnly ==
    [][\A p \in Pids : TimerFires(p) =>
          \A q \in Pids \ {p} : proc'[q] = proc[q]]_vars

\* the agent process p exits in this step
Exits(p) == proc[p].st = "running" /\ proc'[p].st = "exited"

\* C31: the exit of a process that is not the one the handle refers to
\* leaves the handle alone: the late exit of a previous session's process
\* never clears the handle of the current process, so that a later stop()
\* signals the current agent.
C31_LateExitKeepsHandle ==
    [][\A p \in Pids :
          (Exits(p) /\ agentProcess # Null /\ agentProcess # p)
             => agentProcess' = agentProcess]_vars

\* the `connected` and `disconnected` events emitted so far, in order; the
\* listeners of registerVoiceHandlers run inside emit(), so this is also
\* the order of the broadcasts to the UI
StatusEvents ==
    SelectSeq(events, LAMBDA e : e.type \in {"connected", "disconnected"})

\* C32: the `connected` and `disconnected` events strictly alternate,
\* beginning with `connected`, under any interleaving of start() and stop()
\* calls.
C32_EventsAlternate ==
    \A i \in 1..Len(StatusEvents) :
        StatusEvents[i].type =
            IF i % 2 = 1 THEN "connected" ELSE "disconnected"

\* C33: whenever no start() is in progress, status() reports a non-null
\* roomName if and only if it reports isConnected: the room id is set
\* exactly while the session is Connected, also after a failed start().
C33_RoomIffConnected ==
    ~StartInProgress =>
        (GetRoomInfo.roomName # Null <=> GetRoomInfo.isConnected)

\* ------------------------------------------------------------------
\* The heartbeat and the timers of the bridge (LifecycleSpec).
\* ------------------------------------------------------------------

\* the callback of the heartbeat interval runs in this step
Ticks == nTicks' = nTicks + 1

\* C34: a heartbeat tick removes or terminates a registered client only if
\* the last ping it was sent has no answer: a client that answers every
\* ping before the next tick stays registered and open at every tick.
C34_EvictsOnlyUnanswered ==
    [][Ticks => \A w \in clients :
          (w \notin clients' \/ sock'[w].readyState # "OPEN")
             => sock[w].unanswered]_vars
\* C34 witness: a client that answered its ping has passed a second tick
\* and is still registered and open.
C34_Witness ==
    \E w \in clients : /\ sock[w].ticks = 2 /\ sock[w].ponged
                       /\ sock[w].readyState = "OPEN"

\* C35: across any sequence of start() and stop() calls the bridge has one
\* listener and one heartbeat timer exactly while it is running and none
\* otherwise, so never more than one of either; and a heartbeat tick fires
\* only while the bridge is running: none after stop() until the next
\* start().
C35_OneListenerOneTimer ==
    /\ [](heartbeats = IF isRunning THEN 1 ELSE 0)
    /\ [](wss <=> isRunning)
    /\ [][Ticks => (isRunning /\ heartbeats = 1)]_vars
\* C35 witness: the bridge was started, stopped and started again, and has
\* one listener and one heartbeat timer.
C35_Witness ==
    nBridgeStops = 1 /\ isRunning /\ wss /\ heartbeats = 1

\* ------------------------------------------------------------------
\* The bridge client (AutoSpec).
\* ------------------------------------------------------------------

\* the response of the bridge to request r arrives in this step
Receives(r) == ~promises[r].answered /\ promises'[r].answered

\* C36: the response of the bridge to a request that is still pending
\* settles it: the promise resolves when the response has no error and
\* rejects when it has one, with the response as the cause, instead of
\* staying pending until the timeout.
C36_ResponseSettles ==
    [][\A r \in RequestIds :
          (Receives(r) /\ promises[r].state = "pending"
              /\ r \in auto.pendingRequests)
          => /\ promises'[r].by = "response"
             /\ promises'[r].state =
                   IF promises'[r].failed THEN "rejected" ELSE "resolved"]_vars

\* C37: a promise of sendRequest that is pending has its entry in
\* pendingRequests and its timer armed, so that it settles in the end, also
\* after disconnect() or the loss of the connection; a settled promise has
\* no entry and never changes again.
C37_SettlesOnce ==
    /\ [](\A r \in RequestIds :
            /\ promises[r].state = "pending"
                  => (r \in auto.pendingRequests /\ promises[r].timer)
            /\ promises[r].state \in {"resolved", "rejected"}
                  => r \notin auto.pendingRequests)
    /\ [][\A r \in RequestIds :
            promises[r].state \in {"resolved", "rejected"}
               => /\ promises'[r].state = promises[r].state
                  /\ promises'[r].by = promises[r].by]_vars

\* C38: after disconnect() and until the next connect() of the caller no
\* reconnect timer is pending and no new connection is attempted; and at
\* most one reconnect timer is pending at any time.
C38_StaysDisconnected ==
    /\ [](hist.disconnected => (hist.armed = 0 /\ ~auto.reconnectTimer))
    /\ [][(hist.disconnected /\ hist'.disconnected) =>
             \A k \in ConnIds : conns[k] = "unused" => conns'[k] = "unused"]_vars
    /\ [](hist.armed <= 1)

\* ------------------------------------------------------------------
\* The calendar requests of the bridge (BuildSpec).
\* ------------------------------------------------------------------

\* C39: the event of a create-calendar-event request handled by the bridge
\* never ends before it starts; with a start_time and a duration its end is
\* the start plus the duration in minutes, for a start in the past, now or
\* in the future.
C39_EndNotBeforeStart ==
    build.request # <<>> =>
        /\ build.end >= build.start
        /\ build.request[2] # 0 =>
              build.end = build.start + build.request[2] * 60000
====
